---- MODULE Spec2Model ----
(***************************************************************************)
(* A model of the momentum-teacher learner (pl_train_moco.PLLearner), of   *)
(* the cross-batch InfoNCE labels and of the self-similarity InfoNCE loss  *)
(* (pl_train_simclr.PLLearner.info_nce_loss).                              *)
(*                                                                         *)
(* Numbers.  Parameters are integers in 0..MaxVal.  A momentum m stands    *)
(* for the real m/Den, so m = Den is momentum 1 and m = 0 is momentum 0;   *)
(* products are rounded by integer division, the way a float product is    *)
(* rounded: the cases m = 0 and m = Den are exact in both.  Parameters are *)
(* finite numbers (no inf, no NaN).                                        *)
(* Sequences are 1-based: schedule[global_step] of the source is           *)
(* schedule[global_step + 1] here.                                         *)
(***************************************************************************)
EXTENDS Integers, Sequences, FiniteSets, TLC

\* ------------------------------------------------------------------ bounds
MaxVal == 2
Den == 2
NetLen == 2
HeadLen == 2
NumHeads == 2
MaxEpochs == 2
MaxLoader == 3

AccumulateChoices == {1, 2}
DeviceChoices == {1, 2}
SeedChoices == {0, 1}
HeadSeeds == {1}
Grads == {-1, 1}

VARIABLES
    pc,                 \* position of the learner / of training_step
    args,               \* the command-line arguments (and what main adds)
    student,            \* student parameter id -> value
    teacher,            \* teacher parameter id -> value
    requires_grad,      \* parameter id (with owner) -> BOOLEAN
    param_groups,       \* self.optimizer.param_groups
    lr_schedule, wd_schedule, ratio_schedule, momentum_schedule,
    ratio,              \* self.ratio
    global_step, current_epoch, batch_idx,   \* the trainer's counters
    grad,               \* the gradient of the last backward pass
    steps_started, opt_steps, mom_updates,   \* history: how often each ran
    total_acc_t1, total_acc_t5,              \* the module-level histories
    nce,                \* the replicas of one cross-batch InfoNCE computation
    sim,                \* the SimCLR learner's info_nce_loss: caches and result
    knn,                \* one run of the KNN evaluator (validation_epoch_end)
    vit,                \* a VisionTransformer: its configuration and one call
    boot,               \* main at startup: architecture dispatch and constructor
    inter,              \* one training step with intermediate supervision
    coll                \* the replicas' collective operations through a run

vars == <<pc, args, student, teacher, requires_grad, param_groups,
          lr_schedule, wd_schedule, ratio_schedule, momentum_schedule,
          ratio, global_step, current_epoch, batch_idx, grad,
          steps_started, opt_steps, mom_updates, total_acc_t1, total_acc_t5,
          nce, sim, knn, vit, boot, inter, coll>>

schedules == <<lr_schedule, wd_schedule, ratio_schedule, momentum_schedule>>
counters == <<global_step, current_epoch, batch_idx>>
history == <<steps_started, opt_steps, mom_updates>>
accs == <<total_acc_t1, total_acc_t5>>
losses == <<nce, sim>>
probes == <<knn, vit, boot, inter, coll>>

\* a part of the state the specification at hand does not use
ProbesUnused ==
    knn = <<>> /\ vit = <<>> /\ boot = <<>> /\ inter = <<>> /\ coll = <<>>

\* ------------------------------------------------------------------ helpers
Vals == 0..MaxVal

Min(a, b) == IF a < b THEN a ELSE b

Clamp(v) == IF v < 0 THEN 0 ELSE IF v > MaxVal THEN MaxVal ELSE v

\* math.ceil(a / b) for positive b
CeilDiv(a, b) == (a + b - 1) \div b

\* ------------------------------------------------------------------ modules
\* A parameter id is <<module, component, index>>.  The backbone is "net";
\* a projector is a container of heads (one head when not intermediate).
NetParameters == [i \in 1..NetLen |-> <<"net", 1, i>>]

HeadParameters(k) == [i \in 1..HeadLen |-> <<"projector", k, i>>]

\* the number of heads NetWrapper builds for projector
HeadCount(intermediate) == IF intermediate THEN NumHeads ELSE 1

\* module.projector.parameters(): every head's parameters, heads in order
ProjectorParameters(intermediate) ==
    [n \in 1..(HeadCount(intermediate) * HeadLen) |->
        <<"projector", ((n - 1) \div HeadLen) + 1, ((n - 1) % HeadLen) + 1>>]

PredictorParameters == [i \in 1..HeadLen |-> <<"predictor", 1, i>>]

Range(s) == {s[i] : i \in DOMAIN s}

\* NetWrapper(student, ..., prediction=True, intermediate=st_inter).parameters()
StudentIds(st_inter) ==
    Range(NetParameters) \cup Range(ProjectorParameters(st_inter))
        \cup Range(PredictorParameters)

\* NetWrapper(teacher, ..., prediction=False, intermediate=t_inter).parameters()
TeacherIds(t_inter) ==
    Range(NetParameters) \cup Range(ProjectorParameters(t_inter))

\* the value a freshly initialised module gives a parameter
InitValue(seed, id) == (seed + id[2] + 2 * id[3]) % (MaxVal + 1)


\* ------------------------------------------------------------------ state dicts
\* module.state_dict(): the values of the parameters `ids`, in order
StateDict(params, ids) == [n \in DOMAIN ids |-> params[ids[n]]]

\* module.load_state_dict(sd): each parameter of `ids` takes the value the
\* state dict gives its key; the other parameters of `params` keep theirs
LoadStateDict(params, ids, sd) ==
    [id \in DOMAIN params |->
        IF \E n \in DOMAIN ids : ids[n] = id /\ n \in DOMAIN sd
        THEN sd[CHOOSE n \in DOMAIN ids : ids[n] = id]
        ELSE params[id]]

\* ------------------------------------------------------------------ schedules
\* utils.cosine_scheduler(base_value, final_value, epochs, niter_per_ep): one
\* value per training step, epochs * niter_per_ep of them, going monotonically
\* from base_value towards final_value (the cosine is replaced by a ramp).
cosine_scheduler(base_value, final_value, epochs, niter_per_ep) ==
    [n \in 1..(epochs * niter_per_ep) |->
        base_value + ((final_value - base_value) * (n - 1)) \div (epochs * niter_per_ep)]

\* self.t_inter = False
t_inter == FALSE

\* length = math.ceil(length / (args.accumulate * torch.cuda.device_count()))
ScheduleLength(a) == CeilDiv(a.length, a.accumulate * a.device_count)

\* utils.get_params_groups(model): group 0 the regularized parameters (the
\* weights, here index 1 of a component), group 1 the biases and norms, with
\* weight_decay 0; only parameters of `model`
get_params_groups(owner, ids) ==
    << [params |-> {<<owner, id>> : id \in {x \in ids : x[3] = 1}},
        lr |-> 0, weight_decay |-> 0],
       [params |-> {<<owner, id>> : id \in {x \in ids : x[3] # 1}},
        lr |-> 0, weight_decay |-> 0] >>

\* ------------------------------------------------------------------ constructor
\* teacher.load_state_dict(student.state_dict())
InitTeacherNet(t, s) ==
    LoadStateDict(t, NetParameters, StateDict(s, NetParameters))

\* the head of the student whose state the teacher's projector loads
InitTeacherProjectorFirstHead(t, s, st_inter) ==
    LoadStateDict(t, ProjectorParameters(t_inter), StateDict(s, HeadParameters(1)))
InitTeacherProjector(t, s, st_inter) ==
    IF st_inter # t_inter
    THEN LoadStateDict(t, ProjectorParameters(t_inter),
                       StateDict(s, HeadParameters(HeadCount(st_inter))))
    ELSE LoadStateDict(t, ProjectorParameters(t_inter),
                       StateDict(s, ProjectorParameters(st_inter)))

\* for p in self.teacher.parameters(): p.requires_grad = False
FreezeNothing(rg) == rg
FreezeTeacher(rg) ==
    [x \in DOMAIN rg |-> IF x[1] = "teacher" THEN FALSE ELSE rg[x]]


\* ------------------------------------------------------------------ momentum
\* ma_params.data = old_weight * m + (1 - m) * up_weight
EmaSwapped(m, old_weight, up_weight) == (old_weight * (Den - m) + m * up_weight) \div Den
Ema(m, old_weight, up_weight) == (old_weight * m + (Den - m) * up_weight) \div Den

\* for current_params, ma_params in zip(current, ma): one loop of momentum_update
\* (zip stops at the shorter of the two parameter lists)
ZipUpdate(t, s, current, ma, m) ==
    [id \in DOMAIN t |->
        IF \E n \in 1..Min(Len(current), Len(ma)) : ma[n] = id
        THEN Ema(m, t[id],
                 s[current[CHOOSE n \in 1..Min(Len(current), Len(ma)) : ma[n] = id]])
        ELSE t[id]]

\* the student parameters the projector loop of momentum_update reads
MomentumHeadSourceWholeHead(st_inter) == ProjectorParameters(st_inter)
MomentumHeadSource(st_inter) ==
    IF st_inter # t_inter
    THEN HeadParameters(HeadCount(st_inter))
    ELSE ProjectorParameters(st_inter)

\* PLLearner.momentum_update: the new teacher parameters
MomentumUpdateNetOnly(t, s, m, st_inter) == ZipUpdate(t, s, NetParameters, NetParameters, m)
MomentumUpdate(t, s, m, st_inter) ==
    ZipUpdate(ZipUpdate(t, s, NetParameters, NetParameters, m),
              s, MomentumHeadSource(st_inter), ProjectorParameters(t_inter), m)

\* ------------------------------------------------------------------ optimizer
\* the parameters opt.step() writes: those of the groups that have a gradient
Stepped(groups, rg) ==
    {x \in UNION {groups[n].params : n \in DOMAIN groups} : rg[x]}

\* opt.step() on the parameters of one model
OptimizerStep(params, owner, groups, rg, g) ==
    [id \in DOMAIN params |->
        IF <<owner, id>> \in Stepped(groups, rg) THEN Clamp(params[id] - g)
        ELSE params[id]]

\* PLLearner.update_lr: the parameter groups with the step's lr and weight decay
UpdateLrGroupsAllDecay(groups, lr, wd) ==
    [i \in DOMAIN groups |-> [groups[i] EXCEPT !.lr = lr, !.weight_decay = wd]]
UpdateLrGroups(groups, lr, wd) ==
    [i \in DOMAIN groups |->
        IF i = 1 THEN [groups[i] EXCEPT !.lr = lr, !.weight_decay = wd]
        ELSE [groups[i] EXCEPT !.lr = lr]]

\* update_lr and momentum_update read schedule[global_step]: what the read
\* leaves of the schedule
ScheduleAfterReadPopped(schedule) == Tail(schedule)
ScheduleAfterRead(schedule) == schedule

\* schedule[global_step] is defined
InBounds(schedule, step) == step + 1 \in DOMAIN schedule

\* ------------------------------------------------------------------ trainer
\* the batches one replica sees in an epoch: the loader's batches dealt out
\* over the replicas
BatchesPerReplica(a) == CeilDiv(a.length, a.device_count)

\* the statements of training_step, in order
TrainingStepOrderMomentumFirst ==
    <<"update_lr", "forward", "backward", "momentum", "opt_step", "return">>
TrainingStepOrder ==
    <<"update_lr", "forward", "backward", "opt_step", "momentum", "return">>

Position(p) == CHOOSE n \in DOMAIN TrainingStepOrder : TrainingStepOrder[n] = p

After(p) == TrainingStepOrder[Position(p) + 1]


\* ------------------------------------------------------------------ initial state
\* the arguments main hands to the learner and to the trainer
ArgsSet ==
    { a \in [st_inter : BOOLEAN,
             epochs : 1..MaxEpochs,
             max_epochs : 1..MaxEpochs,
             accumulate : AccumulateChoices,
             device_count : DeviceChoices,
             rank : 0..1,
             length : 1..MaxLoader,
             momentum_teacher : 0..Den,
             val_interval : {1, 2},
             lr : {1}, min_lr : {0}, batch_size_per_gpu : {2},
             weight_decay : {1}, weight_decay_end : {3}, ratio : {2}] :
        a.rank < a.device_count }

\* the top-1 and top-5 accuracies an evaluation epoch can report
AccChoices == {<<0, 100>>, <<100, 100>>}

Owned(owner, ids) == {<<owner, id>> : id \in ids}

\* main before the learner is built: two backbones, each with its own
\* initialisation, and the module-level histories empty
Init ==
    /\ pc = "new"
    /\ args \in ArgsSet
    /\ \E seed \in SeedChoices :
        /\ student = [id \in Range(NetParameters) |-> InitValue(seed, id)]
        /\ teacher = [id \in Range(NetParameters) |-> InitValue(seed + 1, id)]
    /\ requires_grad =
         [x \in Owned("student", Range(NetParameters))
                  \cup Owned("teacher", Range(NetParameters)) |-> TRUE]
    /\ param_groups = <<>>
    /\ lr_schedule = <<>> /\ wd_schedule = <<>>
    /\ ratio_schedule = <<>> /\ momentum_schedule = <<>>
    /\ ratio = 0
    /\ global_step = 0 /\ current_epoch = 0 /\ batch_idx = 0
    /\ grad = 0
    /\ steps_started = 0 /\ opt_steps = 0 /\ mom_updates = 0
    /\ total_acc_t1 = <<>> /\ total_acc_t5 = <<>>
    /\ nce = <<>> /\ sim = <<>>
    /\ ProbesUnused

\* ------------------------------------------------------------------ PLLearner.__init__
PLLearnerInit ==
    /\ pc = "new"
    /\ \E hs \in HeadSeeds :
        LET t0 == InitTeacherNet(teacher, student)
            s1 == [id \in StudentIds(args.st_inter) |->
                     IF id \in DOMAIN student THEN student[id] ELSE InitValue(hs, id)]
            t1 == [id \in TeacherIds(t_inter) |->
                     IF id \in DOMAIN t0 THEN t0[id] ELSE InitValue(hs + 1, id)]
            rg == [x \in Owned("student", DOMAIN s1) \cup Owned("teacher", DOMAIN t1) |-> TRUE]
        IN  /\ student' = s1
            /\ teacher' = InitTeacherProjector(t1, s1, args.st_inter)
            /\ requires_grad' = FreezeTeacher(rg)
            /\ param_groups' =
                 get_params_groups("student", DOMAIN s1)
    /\ LET length == ScheduleLength(args)
           total_batch == args.device_count * args.accumulate * args.batch_size_per_gpu
       IN  /\ lr_schedule' = cosine_scheduler(args.lr * total_batch, args.min_lr,
                                              args.epochs, length)
           /\ wd_schedule' = cosine_scheduler(args.weight_decay, args.weight_decay_end,
                                              args.epochs, length)
           /\ ratio_schedule' = cosine_scheduler(0, args.ratio, args.epochs, length)
           /\ momentum_schedule' = cosine_scheduler(args.momentum_teacher, Den,
                                                    args.epochs, length)
    /\ ratio' = 0
    /\ pc' = "fit"
    /\ UNCHANGED <<args, counters, grad, history, accs, losses, probes>>


\* ------------------------------------------------------------------ training_step
\* the trainer calls training_step with the next batch
TrainingStepEnter ==
    /\ pc = "fit"
    /\ pc' = TrainingStepOrder[1]
    /\ steps_started' = steps_started + 1
    /\ UNCHANGED <<args, student, teacher, requires_grad, param_groups, schedules,
                   ratio, counters, grad, opt_steps, mom_updates, accs, losses, probes>>

\* self.update_lr(): an index past the schedule raises IndexError
update_lr ==
    /\ pc = "update_lr"
    /\ IF InBounds(ratio_schedule, global_step) /\ InBounds(lr_schedule, global_step)
          /\ InBounds(wd_schedule, global_step)
       THEN /\ ratio' = ratio_schedule[global_step + 1]
            /\ param_groups' = UpdateLrGroups(param_groups, lr_schedule[global_step + 1],
                                              wd_schedule[global_step + 1])
            /\ ratio_schedule' = ScheduleAfterRead(ratio_schedule)
            /\ lr_schedule' = ScheduleAfterRead(lr_schedule)
            /\ wd_schedule' = ScheduleAfterRead(wd_schedule)
            /\ pc' = After(pc)
       ELSE /\ pc' = "error"
            /\ UNCHANGED <<ratio, param_groups, ratio_schedule, lr_schedule, wd_schedule>>
    /\ UNCHANGED <<args, student, teacher, requires_grad, momentum_schedule, counters, grad,
                   history, accs, losses, probes>>

\* the forward passes, the gathers and the loss
forward ==
    /\ pc = "forward"
    /\ pc' = After(pc)
    /\ UNCHANGED <<args, student, teacher, requires_grad, param_groups, schedules,
                   ratio, counters, grad, history, accs, losses, probes>>

\* opt.zero_grad(); self.manual_backward(loss)
backward ==
    /\ pc = "backward"
    /\ grad' \in Grads
    /\ pc' = After(pc)
    /\ UNCHANGED <<args, student, teacher, requires_grad, param_groups, schedules,
                   ratio, counters, history, accs, losses, probes>>

\* opt.step()
opt_step ==
    /\ pc = "opt_step"
    /\ student' = OptimizerStep(student, "student", param_groups, requires_grad, grad)
    /\ teacher' = OptimizerStep(teacher, "teacher", param_groups, requires_grad, grad)
    /\ opt_steps' = opt_steps + 1
    /\ pc' = After(pc)
    /\ UNCHANGED <<args, requires_grad, param_groups, schedules, ratio, counters, grad,
                   steps_started, mom_updates, accs, losses, probes>>

\* self.momentum_update()
momentum_update ==
    /\ pc = "momentum"
    /\ IF InBounds(momentum_schedule, global_step)
       THEN /\ teacher' = MomentumUpdate(teacher, student,
                                         momentum_schedule[global_step + 1], args.st_inter)
            /\ momentum_schedule' = ScheduleAfterRead(momentum_schedule)
            /\ mom_updates' = mom_updates + 1
            /\ pc' = After(pc)
       ELSE /\ pc' = "error"
            /\ UNCHANGED <<teacher, mom_updates, momentum_schedule>>
    /\ UNCHANGED <<args, student, requires_grad, param_groups, lr_schedule, wd_schedule,
                   ratio_schedule, ratio,
                   counters, grad, steps_started, opt_steps, accs, losses, probes>>

\* ------------------------------------------------------------------ the trainer's loop
\* the global step advances once every args.accumulate batches and with the
\* last batch of an epoch
StepsNow(a, idx) == (idx + 1) % a.accumulate = 0 \/ idx + 1 = BatchesPerReplica(a)

\* an evaluation epoch follows every args.val_interval-th training epoch
ValidatesAfter(a, epoch) == (epoch + 1) % a.val_interval = 0

\* training runs for args.max_epochs epochs
AfterEpoch(a, epoch) == IF epoch + 1 < a.max_epochs THEN "fit" ELSE "done"

\* training_step returns and the trainer moves on
training_step_return ==
    /\ pc = "return"
    /\ global_step' = IF StepsNow(args, batch_idx) THEN global_step + 1 ELSE global_step
    /\ IF batch_idx + 1 < BatchesPerReplica(args)
       THEN /\ batch_idx' = batch_idx + 1
            /\ pc' = "fit"
            /\ UNCHANGED current_epoch
       ELSE /\ batch_idx' = 0
            /\ IF ValidatesAfter(args, current_epoch)
               THEN pc' = "validate" /\ UNCHANGED current_epoch
               ELSE /\ pc' = AfterEpoch(args, current_epoch)
                    /\ current_epoch' = current_epoch + 1
    /\ UNCHANGED <<args, student, teacher, requires_grad, param_groups, schedules,
                   ratio, grad, history, accs, losses, probes>>

\* validation_step ... validation_epoch_end: the KNN evaluation of the teacher
validation_epoch_overwrites_teacher ==
    /\ pc = "validate"
    /\ \E acc \in AccChoices :
        IF args.rank = 0
        THEN /\ total_acc_t1' = Append(total_acc_t1, acc[1])
             /\ total_acc_t5' = Append(total_acc_t5, acc[2])
        ELSE UNCHANGED accs
    /\ pc' = AfterEpoch(args, current_epoch)
    /\ current_epoch' = current_epoch + 1
    /\ teacher' = student
    /\ UNCHANGED <<args, student, requires_grad, param_groups, schedules,
                   ratio, global_step, batch_idx, grad, history, losses, probes>>
validation_epoch ==
    /\ pc = "validate"
    /\ \E acc \in AccChoices :
        IF args.rank = 0
        THEN /\ total_acc_t1' = Append(total_acc_t1, acc[1])
             /\ total_acc_t5' = Append(total_acc_t5, acc[2])
        ELSE UNCHANGED accs
    /\ pc' = AfterEpoch(args, current_epoch)
    /\ current_epoch' = current_epoch + 1
    /\ UNCHANGED <<args, student, teacher, requires_grad, param_groups, schedules,
                   ratio, global_step, batch_idx, grad, history, losses, probes>>

\* main after trainer.fit: on rank 0 it prints max(total_acc_t1) and
\* max(total_acc_t5); max of an empty list raises ValueError
MainBest ==
    /\ pc = "done"
    /\ pc' = IF args.rank = 0 /\ (total_acc_t1 = <<>> \/ total_acc_t5 = <<>>)
             THEN "ValueError" ELSE "exit"
    /\ UNCHANGED <<args, student, teacher, requires_grad, param_groups, schedules,
                   ratio, counters, grad, history, accs, losses, probes>>

Next ==
    \/ PLLearnerInit
    \/ TrainingStepEnter
    \/ update_lr
    \/ forward
    \/ backward
    \/ opt_step
    \/ momentum_update
    \/ training_step_return
    \/ validation_epoch
    \/ MainBest

Spec == Init /\ [][Next]_vars

\* ------------------------------------------------------------------ both learners
\* trainer.fit on the learner of pl_train_moco.py (manual optimization: the
\* actions above) or on the learner of pl_train_simclr.py (automatic
\* optimization: the trainer runs backward, the on_after_backward hook and
\* the optimizer step).

Learners == {"momentum", "simclr"}

\* the arguments of either entry point (one replica's view, rank 0)
FitArgsSet ==
    { [learner |-> l] @@ a :
        l \in Learners,
        a \in {x \in ArgsSet : x.momentum_teacher = 1 /\ x.val_interval = 1
                                /\ x.rank = 0} }

\* main before the learner is built; pl_train_simclr.py builds no teacher
InitFit ==
    /\ pc = "new"
    /\ args \in FitArgsSet
    /\ \E seed \in SeedChoices :
        /\ student = [id \in Range(NetParameters) |-> InitValue(seed, id)]
        /\ teacher = IF args.learner = "momentum"
                     THEN [id \in Range(NetParameters) |-> InitValue(seed + 1, id)]
                     ELSE <<>>
    /\ requires_grad =
         [x \in Owned("student", Range(NetParameters))
                  \cup (IF args.learner = "momentum"
                        THEN Owned("teacher", Range(NetParameters)) ELSE {}) |-> TRUE]
    /\ param_groups = <<>>
    /\ lr_schedule = <<>> /\ wd_schedule = <<>>
    /\ ratio_schedule = <<>> /\ momentum_schedule = <<>>
    /\ ratio = 0
    /\ global_step = 0 /\ current_epoch = 0 /\ batch_idx = 0
    /\ grad = 0
    /\ steps_started = 0 /\ opt_steps = 0 /\ mom_updates = 0
    /\ total_acc_t1 = <<>> /\ total_acc_t5 = <<>>
    /\ nce = <<>> /\ sim = <<>>
    /\ ProbesUnused

\* what the trainer runs for one batch of the SimCLR learner, in order
SimStepOrderHookLast ==
    <<"training_step", "sim_backward", "optimizer_step", "on_after_backward", "return">>
SimStepOrder ==
    <<"training_step", "sim_backward", "on_after_backward", "optimizer_step", "return">>

SimAfter(p) ==
    SimStepOrder[(CHOOSE n \in DOMAIN SimStepOrder : SimStepOrder[n] = p) + 1]

\* PLLearner.__init__ of pl_train_simclr.py: the student with its projector,
\* the optimizer over the student's parameter groups, lr and wd schedules
SimLearnerInit ==
    /\ pc = "new"
    /\ \E hs \in HeadSeeds :
        LET s1 == [id \in TeacherIds(args.st_inter) |->
                     IF id \in DOMAIN student THEN student[id] ELSE InitValue(hs, id)]
        IN  /\ student' = s1
            /\ requires_grad' = [x \in Owned("student", DOMAIN s1) |-> TRUE]
            /\ param_groups' = get_params_groups("student", DOMAIN s1)
    /\ LET length == ScheduleLength(args)
           total_batch == args.device_count * args.accumulate * args.batch_size_per_gpu
       IN  /\ lr_schedule' = cosine_scheduler(args.lr * total_batch, args.min_lr,
                                              args.epochs, length)
           /\ wd_schedule' = cosine_scheduler(args.weight_decay, args.weight_decay_end,
                                              args.epochs, length)
    /\ ratio' = args.ratio
    /\ pc' = "fit"
    /\ UNCHANGED <<args, teacher, ratio_schedule, momentum_schedule, counters, grad,
                   history, accs, losses, probes>>

\* the trainer calls training_step with the next batch: forward and loss
SimTrainingStep ==
    /\ pc = "fit"
    /\ pc' = SimAfter("training_step")
    /\ steps_started' = steps_started + 1
    /\ UNCHANGED <<args, student, teacher, requires_grad, param_groups, schedules,
                   ratio, counters, grad, opt_steps, mom_updates, accs, losses, probes>>

\* the trainer's backward pass of the returned loss
SimBackward ==
    /\ pc = "sim_backward"
    /\ grad' \in Grads
    /\ pc' = SimAfter(pc)
    /\ UNCHANGED <<args, student, teacher, requires_grad, param_groups, schedules,
                   ratio, counters, history, accs, losses, probes>>

\* on_after_backward: the step's lr and weight decay go into the parameter
\* groups; an index past the schedule raises IndexError
on_after_backward ==
    /\ pc = "on_after_backward"
    /\ IF InBounds(lr_schedule, global_step) /\ InBounds(wd_schedule, global_step)
       THEN /\ param_groups' = UpdateLrGroups(param_groups, lr_schedule[global_step + 1],
                                              wd_schedule[global_step + 1])
            /\ pc' = SimAfter(pc)
       ELSE /\ pc' = "error"
            /\ UNCHANGED param_groups
    /\ UNCHANGED <<args, student, teacher, requires_grad, schedules, ratio, counters,
                   grad, history, accs, losses, probes>>

\* the trainer's optimizer step: taken with the last batch of an accumulation
\* window, skipped with the others
SimOptimizerStep ==
    /\ pc = "optimizer_step"
    /\ IF StepsNow(args, batch_idx)
       THEN /\ student' = OptimizerStep(student, "student", param_groups,
                                        requires_grad, grad)
            /\ opt_steps' = opt_steps + 1
       ELSE UNCHANGED <<student, opt_steps>>
    /\ pc' = SimAfter(pc)
    /\ UNCHANGED <<args, teacher, requires_grad, param_groups, schedules, ratio,
                   counters, grad, steps_started, mom_updates, accs, losses, probes>>

\* the learner trainer.fit runs
OfMomentum == args.learner = "momentum"
OfSimclr == args.learner = "simclr"

NextFit ==
    \/ OfMomentum /\ PLLearnerInit
    \/ OfMomentum /\ TrainingStepEnter
    \/ OfMomentum /\ update_lr
    \/ OfMomentum /\ forward
    \/ OfMomentum /\ backward
    \/ OfMomentum /\ opt_step
    \/ OfMomentum /\ momentum_update
    \/ OfSimclr /\ SimLearnerInit
    \/ OfSimclr /\ SimTrainingStep
    \/ OfSimclr /\ SimBackward
    \/ OfSimclr /\ on_after_backward
    \/ OfSimclr /\ SimOptimizerStep
    \/ training_step_return
    \/ validation_epoch

SpecFit == InitFit /\ [][NextFit]_vars



\* ------------------------------------------------------------------ momentum_update alone
\* The momentum update applied to arbitrary student and teacher parameters.
MaxCalls == 2

\* parameter states: every module initialised on its own
ParamStates(ids) ==
    { [id \in ids |-> InitValue(seed[id[1]], id)] :
        seed \in [{"net", "projector", "predictor"} -> Vals] }

InitMomentum ==
    /\ pc = "momentum"
    /\ args \in { a \in ArgsSet :
                    /\ a.epochs = 1 /\ a.max_epochs = 1 /\ a.accumulate = 1
                    /\ a.device_count = 1 /\ a.rank = 0 /\ a.length = MaxCalls
                    /\ a.momentum_teacher = 0 /\ a.val_interval = 1 }
    /\ student \in ParamStates(StudentIds(args.st_inter))
    /\ teacher \in ParamStates(TeacherIds(t_inter))
    /\ requires_grad =
         FreezeTeacher([x \in Owned("student", StudentIds(args.st_inter))
                               \cup Owned("teacher", TeacherIds(t_inter)) |-> TRUE])
    /\ param_groups = get_params_groups("student", StudentIds(args.st_inter))
    /\ momentum_schedule \in [1..MaxCalls -> 0..Den]
    /\ lr_schedule = <<>> /\ wd_schedule = <<>> /\ ratio_schedule = <<>>
    /\ ratio = 0
    /\ global_step = 0 /\ current_epoch = 0 /\ batch_idx = 0
    /\ grad = 0
    /\ steps_started = 0 /\ opt_steps = 0 /\ mom_updates = 0
    /\ total_acc_t1 = <<>> /\ total_acc_t5 = <<>>
    /\ nce = <<>> /\ sim = <<>>
    /\ ProbesUnused

\* momentum_update is called again, at the next global step
CallMomentumUpdate ==
    /\ pc = "return"
    /\ InBounds(momentum_schedule, global_step + 1)
    /\ global_step' = global_step + 1
    /\ pc' = "momentum"
    /\ UNCHANGED <<args, student, teacher, requires_grad, param_groups, schedules,
                   ratio, current_epoch, batch_idx, grad, history, accs, losses, probes>>

NextMomentum == momentum_update \/ CallMomentumUpdate

SpecMomentum == InitMomentum /\ [][NextMomentum]_vars


\* ------------------------------------------------------------------ cross-batch InfoNCE
\* One training step of the momentum learner on every replica, as far as the
\* labels of info_nce_loss are concerned: nce.W replicas, each with a batch of
\* nce.B images.
MaxWorld == 3
MaxBatch == 2
ImageChoices == {1, 2}

mainVars == <<pc, args, student, teacher, requires_grad, param_groups,
              lr_schedule, wd_schedule, ratio_schedule, momentum_schedule,
              ratio, global_step, current_epoch, batch_idx, grad,
              steps_started, opt_steps, mom_updates, total_acc_t1, total_acc_t5>>

\* the learner's own state, left alone by the loss specifications
MainUnused ==
    /\ pc = "loss_only"
    /\ args = <<>> /\ student = <<>> /\ teacher = <<>> /\ requires_grad = <<>>
    /\ param_groups = <<>>
    /\ lr_schedule = <<>> /\ wd_schedule = <<>>
    /\ ratio_schedule = <<>> /\ momentum_schedule = <<>>
    /\ ratio = 0
    /\ global_step = 0 /\ current_epoch = 0 /\ batch_idx = 0
    /\ grad = 0
    /\ steps_started = 0 /\ opt_steps = 0 /\ mom_updates = 0
    /\ total_acc_t1 = <<>> /\ total_acc_t5 = <<>>

Ranks(W) == 0..(W - 1)

\* an embedding: which model made it, of which view of which image, and the
\* replica and row it was computed in
Embedding(model, view, image, rank, index) ==
    [model |-> model, view |-> view, image |-> image, rank |-> rank, index |-> index]

\* self.teacher(x1) on replica `rank`: one row per image of the batch
TeacherOutput(view, images, rank) ==
    [i \in DOMAIN images |-> Embedding("teacher", view, images[i], rank, i - 1)]

\* self.student(x2) on replica `rank`
StudentOutput(view, images, rank) ==
    [i \in DOMAIN images |-> Embedding("student", view, images[i], rank, i - 1)]

\* torch.cat(tensors_gather, dim=0): the replicas' tensors, rank 0 first
RECURSIVE Cat(_, _, _)
Cat(tensors, from, W) ==
    IF from >= W THEN <<>> ELSE tensors[from] \o Cat(tensors, from + 1, W)

\* concat_all_gather(tensor) once every replica has entered the collective
concat_all_gather(tensors, W) == Cat(tensors, 0, W)

\* labels = torch.arange(batch_size) + int(batch_size * get_rank())
InfoNceLabelsNoRank(batch_size, rank) == [i \in 1..batch_size |-> (i - 1)]
InfoNceLabels(batch_size, rank) == [i \in 1..batch_size |-> (i - 1) + batch_size * rank]

\* training_step on one replica: self.forward, concat_all_gather, the
\* InfoNCE loss, then self.manual_backward(loss) and opt.step()
ReplicaOrderGatherLast == <<"forward", "loss", "backward", "gather", "done">>
ReplicaOrder == <<"forward", "gather", "loss", "backward", "done">>

\* the phase that follows phase p
Following(p) ==
    ReplicaOrder[(CHOOSE n \in DOMAIN ReplicaOrder : ReplicaOrder[n] = p) + 1]

InitGather ==
    /\ MainUnused
    /\ sim = <<>>
    /\ ProbesUnused
    /\ \E W \in 1..MaxWorld, B \in 1..MaxBatch :
         \E images \in [Ranks(W) -> [1..B -> ImageChoices]] :
            nce = [W |-> W, B |-> B, images |-> images,
                   phase |-> [r \in Ranks(W) |-> "forward"],
                   teacher_output1 |-> [r \in Ranks(W) |-> <<>>],
                   student_output1 |-> [r \in Ranks(W) |-> <<>>],
                   gathered |-> [r \in Ranks(W) |-> <<>>],
                   labels |-> [r \in Ranks(W) |-> <<>>],
                   backward |-> [r \in Ranks(W) |-> FALSE]]

\* teacher_output1, student_output1 = self.teacher(image1), self.student(image2)
\* on replica r: image1 and image2 are the two views of the replica's images
NceForward(r) ==
    /\ nce.phase[r] = "forward"
    /\ nce' = [nce EXCEPT !.phase[r] = Following("forward"),
                          !.teacher_output1[r] = TeacherOutput(1, nce.images[r], r),
                          !.student_output1[r] = StudentOutput(2, nce.images[r], r)]
    /\ UNCHANGED <<mainVars, sim, probes>>

\* teacher_output1 = concat_all_gather(teacher_output1): the collective
\* completes on all replicas once all of them have entered it
NceAllGather ==
    /\ \A r \in Ranks(nce.W) : nce.phase[r] = "gather"
    /\ nce' = [nce EXCEPT !.phase = [r \in Ranks(nce.W) |-> Following("gather")],
                          !.gathered = [r \in Ranks(nce.W) |->
                                          concat_all_gather(nce.teacher_output1, nce.W)]]
    /\ UNCHANGED <<mainVars, sim, probes>>

\* self.info_nce_loss(student_output1, teacher_output1) on replica r:
\* batch_size = s_features.shape[0]
NceLoss(r) ==
    /\ nce.phase[r] = "loss"
    /\ nce' = [nce EXCEPT !.phase[r] = Following("loss"),
                          !.labels[r] = InfoNceLabels(Len(nce.student_output1[r]), r)]
    /\ UNCHANGED <<mainVars, sim, probes>>

\* opt.zero_grad(); self.manual_backward(loss); opt.step() on replica r
NceBackward(r) ==
    /\ nce.phase[r] = "backward"
    /\ nce' = [nce EXCEPT !.phase[r] = Following("backward"),
                          !.backward[r] = TRUE]
    /\ UNCHANGED <<mainVars, sim, probes>>

NextGather ==
    \/ \E r \in Ranks(nce.W) : NceForward(r)
    \/ NceAllGather
    \/ \E r \in Ranks(nce.W) : NceLoss(r)
    \/ \E r \in Ranks(nce.W) : NceBackward(r)

SpecGather == InitGather /\ [][NextGather]_vars

\* ------------------------------------------------------------------ self-similarity InfoNCE
\* pl_train_simclr.PLLearner.info_nce_loss on the concatenation of the two
\* views' embeddings, with the learner's caches self.labels, self.mask and
\* self.label.  A tensor of rank 2 is a sequence of rows; an entry of the
\* similarity matrix is the pair <<i, j>> of the (0-based) rows it compares.
MaxViewBatch == 3
MaxSimSteps == 2
SimImageChoices == {1, 2, 3}

\* a cache not yet filled (self.labels = None)
None == <<>>

\* info_nce_loss returned
NoError == "none"

\* torch.arange(b / 2): b / 2 is a float, arange rounds the length up
Arange(twice) == [i \in 1..CeilDiv(twice, 2) |-> i - 1]

\* self.labels: cat of two aranges, compared with itself row against column
SimLabelsIdentity(b) ==
    [i \in 1..b |-> [j \in 1..b |-> i = j]]
SimLabels(b) ==
    LET ids == Arange(b) \o Arange(b)
    IN  [i \in 1..Len(ids) |-> [j \in 1..Len(ids) |-> ids[i] = ids[j]]]

\* torch.eye(n, dtype=torch.bool)
Eye(n) == [i \in 1..n |-> [j \in 1..n |-> i = j]]

\* ~mask
Not(mask) == [i \in DOMAIN mask |-> [j \in DOMAIN mask[i] |-> ~mask[i][j]]]

\* torch.matmul(features, features.T), entry by entry
SimilarityMatrix(features) ==
    [i \in DOMAIN features |-> [j \in DOMAIN features |-> <<i - 1, j - 1>>]]

\* two tensors have the same shape
SameShape(a, b) ==
    /\ Len(a) = Len(b)
    /\ \A i \in DOMAIN a : Len(a[i]) = Len(b[i])

RECURSIVE SelectRow(_, _, _)
SelectRow(row, keep, n) ==
    IF n > Len(row) THEN <<>>
    ELSE (IF keep[n] THEN <<row[n]>> ELSE <<>>) \o SelectRow(row, keep, n + 1)

\* tensor[mask]: the entries the mask keeps, row after row, as one flat tensor
RECURSIVE MaskedSelect(_, _, _)
MaskedSelect(tensor, mask, r) ==
    IF r > Len(tensor) THEN <<>>
    ELSE SelectRow(tensor[r], mask[r], 1) \o MaskedSelect(tensor, mask, r + 1)

\* flat.view(rows, -1) is possible
Viewable(flat, rows) == rows > 0 /\ Len(flat) % rows = 0

\* flat.view(rows, -1)
View(flat, rows) ==
    [r \in 1..rows |->
        SubSeq(flat, (r - 1) * (Len(flat) \div rows) + 1, r * (Len(flat) \div rows))]

\* torch.cat([a, b], dim=1)
CatColumns(a, b) == [r \in DOMAIN a |-> a[r] \o b[r]]

\* info_nce_loss(features) with the caches `c`: the logits and the target it
\* hands to the criterion, the caches it leaves, and whether it raised
info_nce_loss(features, c) ==
    LET labels == IF c.labels = None THEN SimLabels(Len(features)) ELSE c.labels
        similarity_matrix == SimilarityMatrix(features)
        mask == IF c.mask = None THEN Eye(Len(labels)) ELSE c.mask
        raised(at) == [labels |-> labels, mask |-> mask, label |-> c.label,
                       logits |-> <<>>, target |-> <<>>, error |-> at]
    IN  IF ~(SameShape(labels, mask) /\ SameShape(similarity_matrix, mask)
               /\ Viewable(MaskedSelect(labels, Not(mask), 1), Len(labels))
               /\ Viewable(MaskedSelect(similarity_matrix, Not(mask), 1),
                           Len(similarity_matrix)))
        THEN raised("mask")
        ELSE
        LET labels2 == View(MaskedSelect(labels, Not(mask), 1), Len(labels))
            similarity2 == View(MaskedSelect(similarity_matrix, Not(mask), 1),
                                Len(similarity_matrix))
        IN  IF ~(SameShape(similarity2, labels2)
                   /\ Viewable(MaskedSelect(similarity2, labels2, 1), Len(labels2))
                   /\ Viewable(MaskedSelect(similarity2, Not(labels2), 1),
                               Len(similarity2)))
            THEN raised("select")
            ELSE
            LET positives == View(MaskedSelect(similarity2, labels2, 1), Len(labels2))
                negatives == View(MaskedSelect(similarity2, Not(labels2), 1),
                                  Len(similarity2))
                logits == CatColumns(positives, negatives)
                label == IF c.label = None THEN [i \in 1..Len(logits) |-> 0]
                         ELSE c.label
            IN  IF Len(label) # Len(logits) THEN raised("criterion")
                ELSE [labels |-> labels, mask |-> mask, label |-> label,
                      logits |-> logits, target |-> label, error |-> NoError]

InitSimclr ==
    /\ MainUnused
    /\ nce = <<>>
    /\ ProbesUnused
    /\ \E N \in 1..MaxViewBatch :
         sim = [N |-> N, phase |-> "forward", steps |-> 0, images |-> <<>>,
                features |-> <<>>,
                labels |-> None, mask |-> None, label |-> None,
                logits |-> <<>>, target |-> <<>>, error |-> NoError]

\* training_step: the student's embeddings of the two views of the batch,
\* concatenated (view one's rows first)
SimForward ==
    /\ sim.phase = "forward"
    /\ sim.steps < MaxSimSteps
    /\ \E images \in [1..sim.N -> SimImageChoices] :
         sim' = [sim EXCEPT
                   !.phase = "loss",
                   !.images = images,
                   !.features =
                      [i \in 1..sim.N |-> Embedding("student", 1, images[i], 0, i - 1)]
                        \o [i \in 1..sim.N |-> Embedding("student", 2, images[i], 0, i - 1)]]
    /\ UNCHANGED <<mainVars, nce, probes>>

\* loss_output = self.info_nce_loss(torch.cat((student_output1, student_output2)))
SimInfoNceLoss ==
    /\ sim.phase = "loss"
    /\ LET out == info_nce_loss(sim.features, sim)
       IN  sim' = [sim EXCEPT
                     !.phase = IF out.error = NoError THEN "forward" ELSE "raised",
                     !.steps = sim.steps + 1,
                     !.labels = out.labels, !.mask = out.mask, !.label = out.label,
                     !.logits = out.logits, !.target = out.target,
                     !.error = out.error]
    /\ UNCHANGED <<mainVars, nce, probes>>

NextSimclr == SimForward \/ SimInfoNceLoss

SpecSimclr == InitSimclr /\ [][NextSimclr]_vars

\* ------------------------------------------------------------------ KNN evaluator
\* PLLearner.validation_epoch_end: the reference embeddings the replicas
\* collected (outs) are gathered into one bank, every batch of the validation
\* loader is classified against it, the percentages are reported.
\*
\* Embeddings.  An embedding is a point on a line of unit vectors, numbered so
\* that two embeddings a and b have cosine similarity SimTop - |a - b| in
\* units of 0.07 * ln 2: identical embeddings have the highest similarity,
\* SimTop (cosine 1), and exp(similarity / 0.07) is 2^similarity up to a
\* factor common to all neighbours.
K == 20
num_classes == 1000
MaxRefs == 2
MaxValSamples == 2

\* the reference samples of the bank that differ from run to run and the
\* validation samples lie at the embeddings K+1 and K+2
EmbChoices == {K + 1, K + 2}
SimTop == K + 2
FillerCounts == {K - 2, K - 1}
\* labels of those reference samples: two classes of their own and the class
\* of a sample further away
RefLabelChoices == {0, 1, num_classes - (K - 2)}
BatchSizeChoices == {1, 2}
WorldChoices == {1, 2}

Sample(emb, label) == [emb |-> emb, label |-> label]

\* the validation samples: one of class 0 and one of class 1
ValChoices == {Sample(K + 1, 0), Sample(K + 2, 1)}

\* reference samples further away, each of a class of its own: the first two
\* are identical embeddings, the i-th of the others lies at embedding i - 1
Fillers(n) == [i \in 1..n |-> Sample(IF i = 1 THEN 1 ELSE i - 1, num_classes - i)]

\* the bank is a set of rows: rows listed in one order stand for every order
Ordered(samples) ==
    \A i \in DOMAIN samples : \A j \in DOMAIN samples :
        i < j => samples[i].emb * (num_classes + 1) + samples[i].label
                   <= samples[j].emb * (num_classes + 1) + samples[j].label

Abs(x) == IF x < 0 THEN -x ELSE x

\* torch.mm(features, train_features) for normalised rows: one entry
Similarity(a, b) == SimTop - Abs(a - b)

\* similarity of one validation embedding to every row of the bank
SimilarityRow(emb, train) == [i \in DOMAIN train |-> Similarity(emb, train[i].emb)]

\* distances.clone().div_(0.07).exp_(): one entry
DistancesTransform(similarity) == 2 ^ similarity

\* the subsets of S with m elements
RECURSIVE Choose(_, _)
Choose(S, m) ==
    IF m = 0 THEN {{}}
    ELSE IF S = {} THEN {}
    ELSE LET x == CHOOSE y \in S : TRUE
         IN  {T \cup {x} : T \in Choose(S \ {x}, m - 1)} \cup Choose(S \ {x}, m)

\* similarity.topk(k, largest=True) on one row: the index sets it may return,
\* k indices none of which is less similar than an index left out (which of
\* several equally similar rows it takes is up to the implementation)
TopKLowest(row, kk) ==
    { DOMAIN row \ D : D \in { D \in Choose(DOMAIN row, Len(row) - kk) :
        \A d \in D : \A i \in DOMAIN row \ D : row[i] <= row[d] } }
TopK(row, kk) ==
    { DOMAIN row \ D : D \in { D \in Choose(DOMAIN row, Len(row) - kk) :
        \A d \in D : \A i \in DOMAIN row \ D : row[i] >= row[d] } }

RECURSIVE SumOver(_, _)
SumOver(S, f) ==
    IF S = {} THEN 0
    ELSE LET x == CHOOSE y \in S : TRUE IN f[x] + SumOver(S \ {x}, f)

\* torch.gather(candidates, 1, indices): the labels of the selected rows
RetrievedNeighbors(train_labels, indices) == {train_labels[i] : i \in indices}

\* probs = sum(one_hot * distances_transform): the score of class c
ProbsUnweighted(train_labels, row, indices, c) ==
    Cardinality({i \in indices : train_labels[i] = c})
Probs(train_labels, row, indices, c) ==
    SumOver({i \in indices : train_labels[i] = c},
            [i \in indices |-> DistancesTransform(row[i])])

\* probs.sort(1, True): the positions (0-based) the class `target` may take
\* in predictions; classes of equal score come in either order
PredictionPositions(probs, target) ==
    LET own == IF target \in DOMAIN probs THEN probs[target] ELSE 0
        above == Cardinality({c \in DOMAIN probs : probs[c] > own})
        level == IF own > 0
                 THEN Cardinality({c \in DOMAIN probs \ {target} : probs[c] >= own})
                 ELSE num_classes - 1
    IN  above..level

\* correct.narrow(1, 0, n): whether the target is among the first n predictions
Narrow(n, position) == position < n

\* of the positions a tie allows, one per outcome of narrow(1, 0, 1) and
\* narrow(1, 0, 5)
Representatives(positions) ==
    {p \in positions : p \in {0, 1, 4, 5} \/ \A q \in positions : p <= q}


\* sequences over S of length lo..hi
SeqsOf(S, lo, hi) == UNION {[1..n -> S] : n \in lo..hi}

\* the rows of the reference set replica r collected (validation_step)
Shard(refs, r, W) == SubSeq(refs, r * (Len(refs) \div W) + 1, (r + 1) * (Len(refs) \div W))

InitKnn ==
    /\ MainUnused
    /\ nce = <<>> /\ sim = <<>> /\ vit = <<>> /\ boot = <<>> /\ inter = <<>>
    /\ coll = <<>>
    /\ \E n \in FillerCounts, W \in WorldChoices, rank \in {0, 1},
          batch_size \in BatchSizeChoices :
         \E near \in SeqsOf([emb : EmbChoices, label : RefLabelChoices], 1, MaxRefs),
            val \in SeqsOf(ValChoices, 0, MaxValSamples) :
            /\ rank = W - 1
            /\ batch_size <= Len(val) \/ batch_size = 1
            /\ (n + Len(near)) % W = 0
            /\ Ordered(near)
            /\ knn = [W |-> W, rank |-> rank, batch_size |-> batch_size,
                      outs |-> [r \in Ranks(W) |-> Shard(Fillers(n) \o near, r, W)],
                      val_loader |-> val,
                      phase |-> "gather", train |-> <<>>, next |-> 1,
                      top1 |-> 0, top5 |-> 0, total |-> 0,
                      runs |-> <<>>, error |-> NoError, report |-> <<>>]

\* train_features, train_labels = the replicas' rows, gathered in rank order
KnnGather ==
    /\ knn.phase = "gather"
    /\ knn' = [knn EXCEPT !.phase = "loop",
                          !.train = concat_all_gather(knn.outs, knn.W)]
    /\ UNCHANGED <<mainVars, losses, vit, boot, inter, coll>>

\* the body of the loop for one validation sample: the neighbours topk
\* selected, the class scores (of the classes that have one), the position
\* of the target among the predictions, and the statement that raised
KnnRuns(train, x) ==
    LET row == SimilarityRow(x.emb, train)
        train_labels == [i \in DOMAIN train |-> train[i].label]
        failed(at) == [indices |-> {}, probs |-> <<>>, position |-> 0,
                       target |-> x.label, emb |-> x.emb, error |-> at]
    IN  IF Len(train) < K THEN {failed("topk")}
        ELSE UNION {
          LET retrieved == RetrievedNeighbors(train_labels, indices)
              probs == [c \in retrieved |-> Probs(train_labels, row, indices, c)]
          IN  IF \E c \in retrieved : c \notin 0..(num_classes - 1)
              THEN {failed("scatter_")}
              ELSE {[indices |-> indices, probs |-> probs, position |-> p,
                     target |-> x.label, emb |-> x.emb, error |-> NoError] :
                       p \in Representatives(PredictionPositions(probs, x.label))}
          : indices \in TopK(row, K)}

\* the loop body for every row of a batch
RECURSIVE KnnBatchRuns(_, _)
KnnBatchRuns(train, batch) ==
    IF batch = <<>> THEN {<<>>}
    ELSE {<<r>> \o rest : r \in KnnRuns(train, Head(batch)),
                          rest \in KnnBatchRuns(train, Tail(batch))}

\* how many rows of the batch have their target among the first n predictions
Hits(runs, n) == Cardinality({i \in DOMAIN runs : Narrow(n, runs[i].position)})

\* for batch in self.val_loader: one batch
KnnBatch ==
    /\ knn.phase = "loop"
    /\ knn.next <= Len(knn.val_loader)
    /\ LET last == Min(knn.next + knn.batch_size - 1, Len(knn.val_loader))
           batch == SubSeq(knn.val_loader, knn.next, last)
       IN  \E runs \in KnnBatchRuns(knn.train, batch) :
             /\ IF \E i \in DOMAIN runs : runs[i].error # NoError
                THEN knn' = [knn EXCEPT
                        !.phase = "raised",
                        !.runs = knn.runs \o runs,
                        !.error = runs[CHOOSE i \in DOMAIN runs :
                                         runs[i].error # NoError].error]
                ELSE knn' = [knn EXCEPT
                        !.next = last + 1,
                        !.runs = knn.runs \o runs,
                        !.top1 = knn.top1 + Hits(runs, 1),
                        !.top5 = knn.top5 + Hits(runs, 5),
                        !.total = knn.total + Len(batch)]
    /\ UNCHANGED <<mainVars, losses, vit, boot, inter, coll>>

\* top1 * 100.0 / total, as the fraction it is
Percent(hits, total) == <<hits * 100, total>>

\* after the loop: the percentages, printed and appended on rank 0
KnnReport ==
    /\ knn.phase = "loop"
    /\ knn.next > Len(knn.val_loader)
    /\ IF knn.total = 0
       THEN /\ knn' = [knn EXCEPT !.phase = "raised", !.error = "division"]
            /\ UNCHANGED accs
       ELSE /\ knn' = [knn EXCEPT !.phase = "reported",
                         !.report = [top1 |-> Percent(knn.top1, knn.total),
                                     top5 |-> Percent(knn.top5, knn.total)]]
            /\ IF knn.rank = 0
               THEN /\ total_acc_t1' = Append(total_acc_t1, Percent(knn.top1, knn.total))
                    /\ total_acc_t5' = Append(total_acc_t5, Percent(knn.top5, knn.total))
               ELSE UNCHANGED accs
    /\ UNCHANGED <<pc, args, student, teacher, requires_grad, param_groups, schedules,
                   ratio, counters, grad, history, losses, vit, boot, inter, coll>>

NextKnn == KnnGather \/ KnnBatch \/ KnnReport

SpecKnn == InitKnn /\ [][NextKnn]_vars


\* ------------------------------------------------------------------ VisionTransformer
\* vision_transformer.VisionTransformer: its construction, statement group by
\* statement group, and one call of forward, get_intermediate_layers or
\* get_last_selfattention on a batch of square images.  A tensor is its
\* shape; the images have one size per batch.
MaxImg == 4
MaxEmbed == 8
MaxDepth == 2
MaxImages == 2

PatchChoices == {1, 2}
\* 12 is the constructor's default
NumHeadsChoices == {1, 2, 12}
Methods == {"forward", "get_intermediate_layers", "get_last_selfattention"}

VitConfigs ==
    [img_size : 1..MaxImg, patch_size : PatchChoices, embed_dim : 1..MaxEmbed,
     depth : 0..MaxDepth, num_heads : NumHeadsChoices, dis_token : BOOLEAN]

\* torch.arange(img_size / patch_size): the quotient is a float, the length
\* of the range is the quotient rounded up
GridLen(img_size, patch_size) == CeilDiv(img_size, patch_size)

\* num_token = 2 if self.dis_token is not None else 1
NumTokenOne(dis_token) == 1
NumToken(dis_token) == IF dis_token THEN 2 ELSE 1

\* assert self.embed_dim % 4 == 0
EmbedDimAccepted(embed_dim) == embed_dim % 4 = 0

\* build_2d_sincos_position_embedding: the shape of self.pos_embed, or the
\* error it stops with
build_2d_sincos_position_embedding(c) ==
    LET w == GridLen(c.img_size, c.patch_size)
        h == GridLen(c.img_size, c.patch_size)
        pos_dim == c.embed_dim \div 4
    IN  IF ~EmbedDimAccepted(c.embed_dim)
        THEN [error |-> "AssertionError", pos_embed |-> <<>>]
        ELSE IF 4 * pos_dim # c.embed_dim
        THEN [error |-> "cat", pos_embed |-> <<>>]
        ELSE [error |-> NoError,
              pos_embed |-> <<1, NumToken(c.dis_token) + w * h, c.embed_dim>>]

\* Attention.__init__: head_dim = dim // num_heads, scale = head_dim ** -0.5
AttentionInitError(c) ==
    IF c.num_heads = 0 \/ c.embed_dim \div c.num_heads = 0
    THEN "ZeroDivisionError" ELSE NoError

\* the statement groups of VisionTransformer.__init__, in their order
InitOrderBlocksFirst == <<"patch_embed", "blocks", "pos_embed", "norms">>
InitOrder == <<"patch_embed", "pos_embed", "blocks", "norms">>

\* nn.Conv2d(kernel_size = stride = patch_size) along one side of the image
ConvOut(size, patch_size) == (size - patch_size) \div patch_size + 1

\* a + b for a of shape (B, N, C) and b of shape (1, N', C'): the shapes
\* broadcast
Broadcasts(a, b) ==
    /\ a[2] = b[2] \/ a[2] = 1 \/ b[2] = 1
    /\ a[3] = b[3] \/ a[3] = 1 \/ b[3] = 1

\* prepare_tokens on images of shape (B, nc, side, side)
prepare_tokens(c, pos_embed, image) ==
    IF image.side < c.patch_size THEN [error |-> "conv", x |-> <<>>]
    ELSE LET patches == ConvOut(image.side, c.patch_size) * ConvOut(image.side, c.patch_size)
             x == <<image.B, (IF c.dis_token THEN 2 ELSE 1) + patches, c.embed_dim>>
         IN  IF ~Broadcasts(x, pos_embed) THEN [error |-> "add", x |-> <<>>]
             ELSE [error |-> NoError,
                   x |-> <<x[1], IF x[2] = 1 THEN pos_embed[2] ELSE x[2], x[3]>>]

\* torch.cat([x, x], dim=-1)
CatLast(x) == <<x[1], x[2], 2 * x[3]>>

\* Block.proj = nn.Linear(2*dim, dim): the shape it gives
ProjWide(c, x) == <<x[1], x[2], 2 * c.embed_dim>>
Proj(c, x) == <<x[1], x[2], c.embed_dim>>

\* Block.forward(x, return_attention): what it returns, or the statement
\* that raised
BlockForward(c, x, return_attention) ==
    IF x[3] # 2 * c.embed_dim THEN [error |-> "proj", out |-> <<>>]
    ELSE LET y == Proj(c, x)
         IN  IF y[3] % c.num_heads # 0 THEN [error |-> "reshape", out |-> <<>>]
             ELSE IF return_attention
             THEN [error |-> NoError, out |-> <<y[1], c.num_heads, y[2], y[2]>>]
             ELSE [error |-> NoError, out |-> y]


InitVit ==
    /\ MainUnused
    /\ nce = <<>> /\ sim = <<>> /\ knn = <<>> /\ boot = <<>> /\ inter = <<>>
    /\ coll = <<>>
    /\ \E c \in VitConfigs :
         vit = [cfg |-> c, phase |-> "init", at |-> 1, built |-> 0,
                pos_embed |-> <<>>, method |-> "", n |-> 0, image |-> <<>>,
                tokens |-> <<>>, x |-> <<>>, i |-> 0, shapes |-> <<>>,
                output |-> <<>>, result |-> <<>>, error |-> NoError]

VitInitAt(step) == vit.phase = "init" /\ InitOrder[vit.at] = step

\* __init__: self.patch_embed, self.cls_token, self.dis_token
VitPatchEmbed ==
    /\ VitInitAt("patch_embed")
    /\ vit' = [vit EXCEPT !.at = vit.at + 1]
    /\ UNCHANGED <<mainVars, losses, knn, boot, inter, coll>>

\* __init__: self.build_2d_sincos_position_embedding()
VitPosEmbed ==
    /\ VitInitAt("pos_embed")
    /\ LET built == build_2d_sincos_position_embedding(vit.cfg)
       IN  vit' = IF built.error # NoError
                  THEN [vit EXCEPT !.phase = "rejected", !.error = built.error]
                  ELSE [vit EXCEPT !.at = vit.at + 1, !.pos_embed = built.pos_embed]
    /\ UNCHANGED <<mainVars, losses, knn, boot, inter, coll>>

\* __init__: self.blocks, one Block(...) of the list after the other
VitBlockInit ==
    /\ VitInitAt("blocks")
    /\ vit' = IF vit.built = vit.cfg.depth
              THEN [vit EXCEPT !.at = vit.at + 1]
              ELSE IF AttentionInitError(vit.cfg) # NoError
              THEN [vit EXCEPT !.phase = "rejected", !.error = AttentionInitError(vit.cfg)]
              ELSE [vit EXCEPT !.built = vit.built + 1]
    /\ UNCHANGED <<mainVars, losses, knn, boot, inter, coll>>

\* __init__: self.norm, self.norms, self.head and the weight initialisation
VitNorms ==
    /\ VitInitAt("norms")
    /\ vit' = [vit EXCEPT !.phase = "built"]
    /\ UNCHANGED <<mainVars, losses, knn, boot, inter, coll>>

\* a method of the model is called on a batch of B images of one size
VitCall ==
    /\ vit.phase = "built"
    /\ \E method \in Methods, B \in 1..MaxImages, side \in 1..MaxImg, n \in 1..MaxDepth :
         /\ method # "get_intermediate_layers" => n = 1
         /\ vit' = [vit EXCEPT !.phase = "prepare", !.method = method, !.n = n,
                               !.image = [B |-> B, side |-> side]]
    /\ UNCHANGED <<mainVars, losses, knn, boot, inter, coll>>

\* x = self.prepare_tokens(x)
VitPrepareTokens ==
    /\ vit.phase = "prepare"
    /\ LET prepared == prepare_tokens(vit.cfg, vit.pos_embed, vit.image)
       IN  vit' = IF prepared.error # NoError
                  THEN [vit EXCEPT !.phase = "raised", !.error = prepared.error]
                  ELSE [vit EXCEPT !.phase = "blocks", !.tokens = prepared.x,
                                   !.x = prepared.x]
    /\ UNCHANGED <<mainVars, losses, knn, boot, inter, coll>>

\* one turn of the loop over self.blocks
VitBlock ==
    /\ vit.phase = "blocks"
    /\ vit.i < vit.cfg.depth
    /\ LET last == vit.i = vit.cfg.depth - 1
           attention == vit.method = "get_last_selfattention"
           blk == IF attention THEN BlockForward(vit.cfg, vit.x, last)
                  ELSE BlockForward(vit.cfg, CatLast(vit.x), FALSE)
       IN  vit' =
             IF blk.error # NoError
             THEN [vit EXCEPT !.phase = "raised", !.error = blk.error]
             ELSE IF attention /\ last
             THEN [vit EXCEPT !.phase = "returned", !.result = blk.out]
             ELSE [vit EXCEPT
                     !.x = blk.out, !.i = vit.i + 1,
                     !.shapes = Append(vit.shapes, blk.out),
                     !.output = IF vit.method = "get_intermediate_layers"
                                   /\ vit.cfg.depth - vit.i <= vit.n
                                THEN Append(vit.output, blk.out)
                                ELSE vit.output]
    /\ UNCHANGED <<mainVars, losses, knn, boot, inter, coll>>

\* after the loop: self.norms[-1](x).mean(dim=1), torch.cat(output, dim=0),
\* or the end of get_last_selfattention
VitReturn ==
    /\ vit.phase = "blocks"
    /\ vit.i = vit.cfg.depth
    /\ vit' =
         CASE vit.method = "forward" ->
                IF vit.cfg.depth = 0
                THEN [vit EXCEPT !.phase = "raised", !.error = "IndexError"]
                ELSE [vit EXCEPT !.phase = "returned",
                                 !.result = <<vit.x[1], vit.x[3]>>]
           [] vit.method = "get_intermediate_layers" ->
                IF vit.output = <<>>
                THEN [vit EXCEPT !.phase = "raised", !.error = "cat"]
                ELSE [vit EXCEPT !.phase = "returned",
                                 !.result = <<Len(vit.output) * vit.x[1],
                                              vit.x[2], vit.x[3]>>]
           [] vit.method = "get_last_selfattention" ->
                [vit EXCEPT !.phase = "returned", !.result = None]
    /\ UNCHANGED <<mainVars, losses, knn, boot, inter, coll>>

NextVit ==
    \/ VitPatchEmbed
    \/ VitPosEmbed
    \/ VitBlockInit
    \/ VitNorms
    \/ VitCall
    \/ VitPrepareTokens
    \/ VitBlock
    \/ VitReturn

SpecVit == InitVit /\ [][NextVit]_vars


\* --------------------------------------------------------------- startup
\* main(args) of pl_train_moco.py and of pl_train_simclr.py up to trainer.fit:
\* the command line, the architecture dispatch, PLLearner.__init__ and the
\* trainer's first call of configure_optimizers.

Scripts == {"pl_train_moco", "pl_train_simclr"}

\* the names with a constructor function in vision_transformer.py
VitConstructors == {"vit_tiny", "vit_small", "vit_base", "deit_small", "deit_base"}

\* vits.__dict__.keys(): the constructors and every other module-level name
VitsDict == VitConstructors \cup {"math"}

\* torchvision_models.__dict__.keys(), two of them: one network with an fc
\* layer and one without
TorchvisionDict == {"resnet50", "alexnet"}
HasFc == {"resnet50"}

\* torchvision_archs: the lower-case callables of torchvision.models
torchvision_archs == TorchvisionDict

\* choices of --arch
ArchChoices ==
    {"vit_tiny", "vit_small", "vit_base", "deit_base", "deit_tiny", "deit_small"}
        \cup torchvision_archs

\* the architecture names tried: those of the choices, a module-level name of
\* vision_transformer that is no constructor, and a name known nowhere
ArchNames == ArchChoices \cup {"math", "vit_huge"}

\* where a setting comes from: the command line or the --load_json file
Origins == {"command line", "json"}

\* the optimizer names tried; there is no --optimizer option, the setting can
\* only come from the json file
OptimizerNames == {"adamw", "sgd", "lars", "adam"}

\* neither a constructor of vision_transformer nor a torchvision model
UnsupportedArch(arch) == arch \notin VitConstructors \cup TorchvisionDict

\* the if / elif chain of PLLearner.__init__: the names that assign
\* self.optimizer
AssignsOptimizer == {"adamw", "sgd", "lars"}

NoRaise == [at |-> "", type |-> "", names |-> ""]

Raise(at, type, names) == [at |-> at, type |-> type, names |-> names]

InitBoot ==
    /\ MainUnused
    /\ nce = <<>> /\ sim = <<>> /\ knn = <<>> /\ vit = <<>> /\ inter = <<>>
    /\ coll = <<>>
    /\ \E script \in Scripts, arch \in ArchNames, from \in Origins,
          json \in BOOLEAN, optimizer \in OptimizerNames \cup {""} :
         /\ from = "json" => json
         /\ optimizer # "" => json
         /\ boot = [script |-> script, arch |-> arch, arch_from |-> from,
                    load_json |-> json,
                    has_optimizer |-> optimizer # "", optimizer |-> optimizer,
                    at |-> "parse_args", student |-> FALSE, embed_dim |-> FALSE,
                    learner |-> FALSE, self_optimizer |-> FALSE,
                    stdout |-> <<>>, raised |-> NoRaise]

BootAt(at) == boot.at = at

\* parser.parse_args(): a command-line value outside the choices ends the
\* program with argparse's usage error; a value of the json namespace is kept
\* as it is
MainParseArgs ==
    /\ BootAt("parse_args")
    /\ boot' = IF boot.arch_from = "command line" /\ boot.arch \notin ArchChoices
               THEN [boot EXCEPT !.at = "aborted",
                                 !.raised = Raise("parse_args", "SystemExit", boot.arch)]
               ELSE [boot EXCEPT !.at = "dispatch"]
    /\ UNCHANGED <<mainVars, losses, knn, vit, inter, coll>>

\* main: if args.arch in vits.__dict__ ... elif in torchvision_models.__dict__
\* ... else: print(f"Unknow architecture: {args.arch}")
MainDispatch ==
    /\ BootAt("dispatch")
    /\ boot' =
         CASE boot.arch \in VitsDict ->
                IF boot.arch \in VitConstructors
                THEN [boot EXCEPT !.at = "PLLearner", !.student = TRUE,
                                  !.embed_dim = TRUE]
                ELSE [boot EXCEPT !.at = "aborted",
                                  !.raised = Raise("dispatch", "TypeError", "")]
           [] boot.arch \notin VitsDict /\ boot.arch \in TorchvisionDict ->
                IF boot.arch \in HasFc
                THEN [boot EXCEPT !.at = "PLLearner", !.student = TRUE,
                                  !.embed_dim = TRUE]
                ELSE [boot EXCEPT !.at = "aborted", !.student = TRUE,
                                  !.raised = Raise("dispatch", "AttributeError", "fc")]
           [] OTHER ->
                [boot EXCEPT !.at = "PLLearner",
                             !.stdout = Append(boot.stdout,
                                               <<"Unknow architecture", boot.arch>>)]
    /\ UNCHANGED <<mainVars, losses, knn, vit, inter, coll>>

\* main: learner = PLLearner(student, ..., embed_dim, args); the arguments are
\* evaluated first, and a name the dispatch did not bind cannot be read
MainLearner ==
    /\ BootAt("PLLearner")
    /\ boot' = IF boot.student
               THEN [boot EXCEPT !.at = "optimizer"]
               ELSE [boot EXCEPT !.at = "aborted",
                                 !.raised = Raise("PLLearner", "UnboundLocalError",
                                                  "student")]
    /\ UNCHANGED <<mainVars, losses, knn, vit, inter, coll>>

\* PLLearner.__init__: if args.optimizer == "adamw" ... elif "sgd" ... elif
\* "lars" ..., with no else
LearnerOptimizer ==
    /\ BootAt("optimizer")
    /\ boot' =
         IF ~boot.has_optimizer
         THEN [boot EXCEPT !.at = "aborted",
                           !.raised = Raise("optimizer", "AttributeError", "optimizer")]
         ELSE [boot EXCEPT !.at = "schedulers",
                           !.self_optimizer = boot.optimizer \in AssignsOptimizer]
    /\ UNCHANGED <<mainVars, losses, knn, vit, inter, coll>>

\* PLLearner.__init__: the schedules and the rest; the constructor returns
LearnerSchedulers ==
    /\ BootAt("schedulers")
    /\ boot' = [boot EXCEPT !.at = "fit", !.learner = TRUE]
    /\ UNCHANGED <<mainVars, losses, knn, vit, inter, coll>>

\* trainer.fit(learner, ...): the trainer asks configure_optimizers, which
\* returns [self.optimizer]
configure_optimizers ==
    /\ BootAt("fit")
    /\ boot' = IF boot.self_optimizer
               THEN [boot EXCEPT !.at = "training"]
               ELSE [boot EXCEPT !.at = "aborted",
                                 !.raised = Raise("configure_optimizers",
                                                  "AttributeError", "optimizer")]
    /\ UNCHANGED <<mainVars, losses, knn, vit, inter, coll>>

NextBoot ==
    \/ MainParseArgs
    \/ MainDispatch
    \/ MainLearner
    \/ LearnerOptimizer
    \/ LearnerSchedulers
    \/ configure_optimizers

SpecBoot == InitBoot /\ [][NextBoot]_vars


\* ------------------------------------------------- intermediate supervision
\* One training_step of pl_train_moco.py on one replica, by the shapes of its
\* tensors: the wrapped networks return some number of rows, and the losses
\* and torch.split accept them or raise.

MaxStepBatch == 2

\* the rows a wrapped network may return for one view
RowChoices == 0..(12 * MaxStepBatch + 1)

\* the momentum of the step, in units of 1 / Den
StepMomentum == 1

\* the parameters at the start of the step, one value for each network
StepStart == [student |-> 1, teacher |-> 1]

\* torch.arange(batch_size) for the float batch_size = rows / depth:
\* ceil(rows / depth) entries
ArangeLen(rows, depth) == CeilDiv(rows, depth)

\* info_nce_loss_layer: labels = torch.cat([torch.arange(batch_size) +
\* int(batch_size * get_rank()) for _ in range(depth)])
LayerLabels(rows, depth, rank) ==
    [n \in 1..(depth * ArangeLen(rows, depth)) |->
        ((n - 1) % ArangeLen(rows, depth)) + ((rows * rank) \div depth)]

\* self.criterion(logits, labels) for logits of rows x cols: the error of
\* nn.CrossEntropyLoss, if any
CrossEntropyError(rows, cols, labels) ==
    IF Len(labels) # rows THEN "ValueError"
    ELSE IF \E n \in DOMAIN labels : labels[n] >= cols THEN "IndexError"
    ELSE NoError

\* info_nce_loss_layer(s_features, t_features, d): d = 0 stands for None
info_nce_loss_layer(s_rows, t_rows, d, st_inter, rank) ==
    LET depth == IF d # 0 THEN d ELSE IF st_inter THEN 11 ELSE 1
    IN  CrossEntropyError(s_rows, t_rows, LayerLabels(s_rows, depth, rank))

\* torch.split(tensor, split_sizes, dim=0) needs the sizes to add up to the
\* rows of the tensor
SplitFitsAlways(rows, first, second) == TRUE
SplitFits(rows, first, second) == rows = first + second

\* the values a loss of the step may take
LossChoices == {0, 1}

\* self.ratio_schedule, and the steps of it the step may be taken at
StepRatioSchedule == <<0, 2>>

\* forward(x1, x2) returns self.teacher(x1), self.student(x2),
\* self.teacher(x2), self.student(x1): the network and the view of each
ForwardReturnSameView ==
    <<[net |-> "teacher", view |-> 1], [net |-> "student", view |-> 1],
      [net |-> "teacher", view |-> 2], [net |-> "student", view |-> 2]>>
ForwardReturn ==
    <<[net |-> "teacher", view |-> 1], [net |-> "student", view |-> 2],
      [net |-> "teacher", view |-> 2], [net |-> "student", view |-> 1]>>

\* a loss term of student features against teacher features
Term(loss, s_features, t_features) ==
    [loss |-> loss, student |-> s_features, teacher |-> t_features]

\* info_nce_loss_layer / info_nce_loss on the first and on the second pair of
\* outputs: training_step unpacks forward's result as teacher_output1,
\* student_output1, teacher_output2, student_output2
Terms(loss, ret) == <<Term(loss, ret[2], ret[1]), Term(loss, ret[4], ret[3])>>

\* loss = loss_output + self.ratio * loss_mid + 12 * loss_detached
TotalLossOutputAndMid(loss_output, weight, loss_mid, loss_detached) ==
    loss_output + weight * loss_mid
TotalLoss(loss_output, weight, loss_mid, loss_detached) ==
    loss_output + weight * loss_mid + 12 * loss_detached

InitInter ==
    /\ MainUnused
    /\ nce = <<>> /\ sim = <<>> /\ knn = <<>> /\ vit = <<>> /\ boot = <<>>
    /\ coll = <<>>
    /\ \E W \in WorldChoices, batch_size \in 1..MaxStepBatch, st \in BOOLEAN,
          step \in DOMAIN StepRatioSchedule :
         \E rank \in Ranks(W) :
            inter = [W |-> W, rank |-> rank, batch_size |-> batch_size,
                     st_inter |-> st, at |-> "update_lr",
                     global_step |-> step - 1, ratio |-> 0,
                     ret |-> <<>>, terms |-> <<>>,
                     loss_detached |-> 0, loss_mid |-> 0, loss_output |-> 0,
                     loss |-> 0, backward |-> <<>>,
                     accumulating |-> FALSE, clip_grad |-> 0, clipped |-> FALSE,
                     stepped |-> FALSE,
                     student |-> StepStart.student, teacher |-> StepStart.teacher,
                     student_rows |-> 0, teacher_rows |-> 0,
                     student_output |-> 0, teacher_output |-> 0,
                     student_mid |-> 0, line |-> 0, error |-> NoError]

InterRaise(line, error) == [inter EXCEPT !.at = "raised", !.line = line, !.error = error]

\* self.update_lr(): self.ratio = self.ratio_schedule[self.global_step]
InterUpdateLr ==
    /\ inter.at = "update_lr"
    /\ inter' = [inter EXCEPT !.at = "forward",
                              !.ratio = StepRatioSchedule[inter.global_step + 1]]
    /\ UNCHANGED <<mainVars, losses, knn, vit, boot, coll>>

\* teacher_output1, student_output1, ... = self.forward(image1, image2): the
\* wrapped networks return their rows
InterForward ==
    /\ inter.at = "forward"
    /\ \E s_rows \in RowChoices, t_rows \in RowChoices :
         inter' = [inter EXCEPT !.at = "gather", !.ret = ForwardReturn,
                                !.student_rows = s_rows, !.teacher_rows = t_rows,
                                !.student_output = s_rows, !.teacher_output = t_rows]
    /\ UNCHANGED <<mainVars, losses, knn, vit, boot, coll>>

\* if self.t_inter: torch.split(teacher_output1, ...), then
\* teacher_output1 = concat_all_gather(teacher_output1)
InterGather ==
    /\ inter.at = "gather"
    /\ inter' =
         IF t_inter /\ ~SplitFits(inter.teacher_output, 11 * inter.batch_size,
                                  inter.batch_size)
         THEN InterRaise(188, "split")
         ELSE [inter EXCEPT !.at = "loss_detached",
                            !.teacher_output =
                                inter.W * (IF t_inter THEN inter.batch_size
                                           ELSE inter.teacher_output)]
    /\ UNCHANGED <<mainVars, losses, knn, vit, boot, coll>>

\* if self.st_inter: loss_detached = self.info_nce_loss_layer(
\* self.student.predict(student_output1.detach()), teacher_output1, 12) + ...
InterLossDetached ==
    /\ inter.at = "loss_detached"
    /\ \E value \in (IF inter.st_inter THEN LossChoices ELSE {0}) : inter' =
         IF ~inter.st_inter THEN [inter EXCEPT !.at = "loss_output"]
         ELSE LET error == info_nce_loss_layer(inter.student_output,
                                               inter.teacher_output, 12,
                                               inter.st_inter, inter.rank)
              IN  IF error # NoError THEN InterRaise(199, error)
                  ELSE [inter EXCEPT !.at = "split", !.loss_detached = value,
                                     !.terms = inter.terms
                                                 \o Terms("loss_detached", inter.ret)]
    /\ UNCHANGED <<mainVars, losses, knn, vit, boot, coll>>

\* student_mid1, student_output1 = torch.split(self.student.predict(
\* student_output1), [batch_size * 11, batch_size], dim=0)
InterSplit ==
    /\ inter.at = "split"
    /\ inter' =
         IF ~SplitFits(inter.student_output, 11 * inter.batch_size, inter.batch_size)
         THEN InterRaise(205, "split")
         ELSE [inter EXCEPT !.at = "loss_mid",
                            !.student_mid = 11 * inter.batch_size,
                            !.student_output = inter.batch_size]
    /\ UNCHANGED <<mainVars, losses, knn, vit, boot, coll>>

\* loss_mid = self.info_nce_loss_layer(student_mid1, teacher_output1) + ...
InterLossMid ==
    /\ inter.at = "loss_mid"
    /\ LET error == info_nce_loss_layer(inter.student_mid, inter.teacher_output, 0,
                                        inter.st_inter, inter.rank)
       IN  \E value \in LossChoices :
             inter' = IF error # NoError THEN InterRaise(207, error)
                      ELSE [inter EXCEPT !.at = "loss_output", !.loss_mid = value,
                                         !.terms = inter.terms
                                                     \o Terms("loss_mid", inter.ret)]
    /\ UNCHANGED <<mainVars, losses, knn, vit, boot, coll>>

\* loss_output = self.info_nce_loss(student_output1, teacher_output1) + ...,
\* then loss = loss_output + self.ratio * loss_mid + 12 * loss_detached
InterLossOutput ==
    /\ inter.at = "loss_output"
    /\ LET error == CrossEntropyError(inter.student_output, inter.teacher_output,
                                      InfoNceLabels(inter.student_output, inter.rank))
       IN  \E value \in LossChoices :
             inter' = IF error # NoError THEN InterRaise(213, error)
                      ELSE [inter EXCEPT !.at = "opt_step", !.loss_output = value,
                                         !.terms = inter.terms
                                                     \o Terms("loss_output", inter.ret),
                                         !.loss = TotalLoss(value, inter.ratio,
                                                            inter.loss_mid,
                                                            inter.loss_detached)]
    /\ UNCHANGED <<mainVars, losses, knn, vit, boot, coll>>

\* --clip_grad: the default, and 0 that disables clipping
ClipChoices == {0, 3}

\* Trainer(gradient_clip_val=args.clip_grad, accumulate_grad_batches=
\* args.accumulate): the step itself never clips, and what the trainer does
\* inside manual_backward is the library's: it can clip only with a positive
\* clip value and on a batch that ends an accumulation window
TrainerClips(accumulating, clip_grad) ==
    IF ~accumulating /\ clip_grad > 0 THEN BOOLEAN ELSE {FALSE}

\* opt.zero_grad(); self.manual_backward(loss)
InterBackward ==
    /\ inter.at = "opt_step"
    /\ \E accumulating \in BOOLEAN, clip_grad \in ClipChoices :
         \E clipped \in TrainerClips(accumulating, clip_grad) :
            inter' = [inter EXCEPT !.at = "step", !.backward = <<inter.loss>>,
                                   !.accumulating = accumulating,
                                   !.clip_grad = clip_grad,
                                   !.clipped = clipped]
    /\ UNCHANGED <<mainVars, losses, knn, vit, boot, coll>>

\* opt.step(): the optimizer of the learner, stepped on every batch
InterOptStep ==
    /\ inter.at = "step"
    /\ \E g \in Grads :
         inter' = [inter EXCEPT !.at = "momentum_update", !.stepped = TRUE,
                                !.student = inter.student - g]
    /\ UNCHANGED <<mainVars, losses, knn, vit, boot, coll>>

\* self.momentum_update()
InterMomentumUpdate ==
    /\ inter.at = "momentum_update"
    /\ inter' = [inter EXCEPT !.at = "done",
                              !.teacher = Ema(StepMomentum, inter.teacher,
                                              inter.student)]
    /\ UNCHANGED <<mainVars, losses, knn, vit, boot, coll>>

NextInter ==
    \/ InterUpdateLr
    \/ InterForward
    \/ InterGather
    \/ InterLossDetached
    \/ InterSplit
    \/ InterLossMid
    \/ InterLossOutput
    \/ InterBackward
    \/ InterOptStep
    \/ InterMomentumUpdate

SpecInter == InitInter /\ [][NextInter]_vars


\* -------------------------------------------------------------- image size
\* main of either script from the choice of the dataset to the first forward
\* passes of a ViT backbone: the image size of the transforms, the size the
\* backbone is built for, and the token sequence against self.pos_embed.

\* --dataset: the choices main has a branch for (it builds no dataset for
\* "cifar10")
DatasetChoices == {"stl10", "imagenet"}

\* the constructors that take dis_token from their caller
SizeArchs == {"vit_tiny", "vit_small", "vit_base"}

\* --patch_size
SizePatchChoices == {8, 16}

\* embed_dim and num_heads of vit_tiny, vit_small, vit_base
ArchEmbedDim(arch) ==
    CASE arch = "vit_tiny" -> 192 [] arch = "vit_small" -> 384 [] OTHER -> 768
ArchNumHeads(arch) == IF arch = "vit_tiny" THEN 3 ELSE 12

\* image_size = 96 if args.dataset == "stl10" else 224
ImageSize(dataset) == IF dataset = "stl10" THEN 96 ELSE 224

\* VisionTransformer.__init__(img_size=[224], ...)
DefaultImgSize == 224

\* the img_size the backbone is constructed with: pl_train_moco.py passes
\* img_size=[image_size], pl_train_simclr.py passes patch_size and
\* drop_path_rate only
BackboneImgSize(script, image_size) ==
    IF script = "pl_train_moco" THEN image_size ELSE DefaultImgSize

\* who calls the backbone: the training step on the augmented views
\* (RandomResizedCrop to image_size), the evaluation on the validation
\* transform (CenterCrop to image_size)
Callers == {"training_step", "validation_step", "validation_epoch_end"}

InitSize ==
    /\ MainUnused
    /\ nce = <<>> /\ sim = <<>> /\ knn = <<>> /\ boot = <<>> /\ inter = <<>>
    /\ coll = <<>>
    /\ \E script \in Scripts, dataset \in DatasetChoices, arch \in SizeArchs,
          patch_size \in SizePatchChoices, dis_token \in BOOLEAN :
         /\ script = "pl_train_simclr" => ~dis_token
         /\ vit = [script |-> script, dataset |-> dataset, arch |-> arch,
                   patch_size |-> patch_size, dis_token |-> dis_token,
                   phase |-> "main", image_size |-> 0, cfg |-> <<>>,
                   pos_embed |-> <<>>, caller |-> "", image |-> <<>>,
                   x |-> <<>>, error |-> NoError]

\* main: image_size, and with it the transforms of the datasets
SizeMainImageSize ==
    /\ vit.phase = "main"
    /\ vit' = [vit EXCEPT !.phase = "backbone",
                          !.image_size = ImageSize(vit.dataset)]
    /\ UNCHANGED <<mainVars, losses, knn, boot, inter, coll>>

\* main: student = vits.__dict__[args.arch](...)
SizeMainBackbone ==
    /\ vit.phase = "backbone"
    /\ LET c == [img_size |-> BackboneImgSize(vit.script, vit.image_size),
                 patch_size |-> vit.patch_size,
                 embed_dim |-> ArchEmbedDim(vit.arch), depth |-> 12,
                 num_heads |-> ArchNumHeads(vit.arch),
                 dis_token |-> vit.dis_token]
           built == build_2d_sincos_position_embedding(c)
       IN  vit' = IF built.error # NoError
                  THEN [vit EXCEPT !.phase = "rejected", !.cfg = c,
                                   !.error = built.error]
                  ELSE [vit EXCEPT !.phase = "built", !.cfg = c,
                                   !.pos_embed = built.pos_embed]
    /\ UNCHANGED <<mainVars, losses, knn, boot, inter, coll>>

\* a forward pass of the backbone on a batch of B images of the size the
\* transforms produce: x = self.prepare_tokens(x)
SizeForward ==
    /\ vit.phase = "built"
    /\ \E caller \in Callers, B \in 1..MaxImages :
         LET image == [B |-> B, side |-> vit.image_size]
             prepared == prepare_tokens(vit.cfg, vit.pos_embed, image)
         IN  vit' = IF prepared.error # NoError
                    THEN [vit EXCEPT !.phase = "raised", !.caller = caller,
                                     !.image = image, !.error = prepared.error]
                    ELSE [vit EXCEPT !.phase = "returned", !.caller = caller,
                                     !.image = image, !.x = prepared.x]
    /\ UNCHANGED <<mainVars, losses, knn, boot, inter, coll>>

NextSize ==
    \/ SizeMainImageSize
    \/ SizeMainBackbone
    \/ SizeForward

SpecSize == InitSize /\ [][NextSize]_vars


\* ------------------------------------------------------------- collectives
\* The replicas of a distributed run, as far as their collective operations
\* are concerned: every replica executes the same run of training steps and
\* evaluation epochs (the trainer gives each replica the same number of
\* batches), and a collective completes once all replicas have entered it.
MaxItems == 2
MaxRows == 2

\* what the trainer runs: training_step, or the validation steps of an epoch
\* followed by validation_epoch_end
ItemChoices == {"training_step", "validation"}

\* training_step: self.forward, concat_all_gather(teacher_output1),
\* concat_all_gather(teacher_output2), the losses (those of the intermediate
\* layers only with st_inter), then the optimizer step and momentum update
StepPhasesGatherInBranch(st_inter) ==
    <<"forward", "teacher_output1">>
        \o (IF st_inter THEN <<"teacher_output2", "loss_detached", "loss_mid">>
            ELSE <<>>)
        \o <<"loss_output", "opt_step", "momentum_update">>
StepPhases(st_inter) ==
    <<"forward", "teacher_output1", "teacher_output2">>
        \o (IF st_inter THEN <<"loss_detached", "loss_mid">> ELSE <<>>)
        \o <<"loss_output", "opt_step", "momentum_update">>

\* the validation steps of an epoch, then validation_epoch_end:
\* dist.all_gather of the features, dist.all_gather of the labels, the loop
\* over self.val_loader and the report
EvalPhases == <<"validation_step", "train_features", "train_labels", "knn", "report">>

\* the phases that are collective operations
Collectives == {"teacher_output1", "teacher_output2", "train_features", "train_labels"}

Phases(item, st_inter) ==
    IF item = "training_step" THEN StepPhases(st_inter) ELSE EvalPhases

\* validation_step on replica `rank` in its `epoch`-th evaluation epoch:
\* {'features': self.teacher.get_representation(x), 'labels': label}, one row
\* per sample, each named by the sample it comes from
ValidationOuts(rank, epoch, rows) ==
    [i \in 1..rows |->
        [features |-> [rank |-> rank, epoch |-> epoch, index |-> i],
         labels |-> [rank |-> rank, epoch |-> epoch, index |-> i]]]

\* torch.cat([f[0] for f in outs]) and torch.cat([f[1] for f in outs])
CatFeatures(outs) == [i \in DOMAIN outs |-> outs[i].features]
CatLabels(outs) == [i \in DOMAIN outs |-> outs[i].labels]

\* dist.all_gather(gather_t, tensor); torch.cat(gather_t): the replicas'
\* tensors, rank 0 first
RECURSIVE CatRankLast(_, _, _)
CatRankLast(tensors, from, W) ==
    IF from >= W THEN <<>> ELSE CatRankLast(tensors, from + 1, W) \o tensors[from]
AllGatherCatReversed(tensors, W) == CatRankLast(tensors, 0, W)
AllGatherCat(tensors, W) == Cat(tensors, 0, W)

InitColl ==
    /\ MainUnused
    /\ nce = <<>> /\ sim = <<>> /\ knn = <<>> /\ vit = <<>> /\ boot = <<>>
    /\ inter = <<>>
    /\ \E W \in WorldChoices, st \in BOOLEAN, rows \in 1..MaxRows,
          plan \in SeqsOf(ItemChoices, 1, MaxItems) :
         coll = [W |-> W, st_inter |-> st, rows |-> rows, plan |-> plan,
                 item |-> [r \in Ranks(W) |-> 1],
                 phase |-> [r \in Ranks(W) |-> 1],
                 entered |-> [r \in Ranks(W) |-> FALSE],
                 issued |-> [r \in Ranks(W) |-> <<>>],
                 epoch |-> [r \in Ranks(W) |-> 0],
                 outs |-> [r \in Ranks(W) |-> <<>>],
                 train_features |-> [r \in Ranks(W) |-> <<>>],
                 train_labels |-> [r \in Ranks(W) |-> <<>>]]

\* replica r has run its whole plan
CollDone(r) == coll.item[r] > Len(coll.plan)

\* the phase replica r is at
CollPhase(r) == Phases(coll.plan[coll.item[r]], coll.st_inter)[coll.phase[r]]

\* replica r past its current phase: the next phase of the item, or the
\* first phase of the next item
CollAdvance(c, r) ==
    IF c.phase[r] < Len(Phases(c.plan[c.item[r]], c.st_inter))
    THEN [c EXCEPT !.phase[r] = c.phase[r] + 1]
    ELSE [c EXCEPT !.item[r] = c.item[r] + 1, !.phase[r] = 1]

\* replica r runs a phase that involves no other replica; the validation
\* steps leave the epoch's outputs, and the bank is a local of
\* validation_epoch_end, gone when it returns
CollLocal(r) ==
    /\ ~CollDone(r)
    /\ CollPhase(r) \notin Collectives
    /\ LET c == CASE CollPhase(r) = "validation_step" ->
                       [coll EXCEPT !.epoch[r] = coll.epoch[r] + 1,
                                    !.outs[r] = ValidationOuts(r, coll.epoch[r] + 1,
                                                               coll.rows)]
                  [] CollPhase(r) = "report" ->
                       [coll EXCEPT !.train_features[r] = <<>>,
                                    !.train_labels[r] = <<>>]
                  [] OTHER -> coll
       IN  coll' = CollAdvance(c, r)
    /\ UNCHANGED <<mainVars, losses, knn, vit, boot, inter>>

\* replica r enters the collective it has arrived at, and waits
CollEnter(r) ==
    /\ ~CollDone(r)
    /\ CollPhase(r) \in Collectives
    /\ ~coll.entered[r]
    /\ coll' = [coll EXCEPT !.entered[r] = TRUE,
                            !.issued[r] = Append(coll.issued[r], CollPhase(r))]
    /\ UNCHANGED <<mainVars, losses, knn, vit, boot, inter>>

\* all replicas wait in the same collective: it completes on all of them
CollComplete ==
    /\ \A r \in Ranks(coll.W) : ~CollDone(r) /\ coll.entered[r]
    /\ \A r \in Ranks(coll.W) : coll.issued[r] = coll.issued[0]
    /\ LET name == CollPhase(0)
           gathered ==
             [coll EXCEPT
                !.entered = [r \in Ranks(coll.W) |-> FALSE],
                !.train_features =
                    IF name = "train_features"
                    THEN [r \in Ranks(coll.W) |->
                            AllGatherCat([q \in Ranks(coll.W) |->
                                            CatFeatures(coll.outs[q])], coll.W)]
                    ELSE coll.train_features,
                !.train_labels =
                    IF name = "train_labels"
                    THEN [r \in Ranks(coll.W) |->
                            AllGatherCat([q \in Ranks(coll.W) |->
                                            CatLabels(coll.outs[q])], coll.W)]
                    ELSE coll.train_labels]
           RECURSIVE AdvanceAll(_, _)
           AdvanceAll(c, r) ==
             IF r >= coll.W THEN c ELSE AdvanceAll(CollAdvance(c, r), r + 1)
       IN  coll' = AdvanceAll(gathered, 0)
    /\ UNCHANGED <<mainVars, losses, knn, vit, boot, inter>>

NextColl ==
    \/ \E r \in Ranks(coll.W) : CollLocal(r)
    \/ \E r \in Ranks(coll.W) : CollEnter(r)
    \/ CollComplete

SpecColl == InitColl /\ [][NextColl]_vars

\* every replica that can take a step eventually takes one
SpecCollFair == SpecColl /\ WF_vars(NextColl)


\* ------------------------------------------------------------------ claims
\* the momentum of the running training step
CurrentMomentum == momentum_schedule[global_step + 1]

\* the student head that corresponds to the teacher's projector
FinalHead(st_inter) == HeadCount(st_inter)

\* C1: in every training step the momentum update comes strictly after the
\* optimizer step of the same step and before the forward pass of the next
\* step; no training step updates the teacher before, or without, its
\* optimizer step.
C1_MomentumAfterOptimizerStep ==
    /\ [](pc = "forward" => mom_updates = opt_steps /\ steps_started = opt_steps + 1)
    /\ [][/\ (mom_updates' # mom_updates =>
                 /\ mom_updates' = mom_updates + 1
                 /\ opt_steps = mom_updates + 1
                 /\ steps_started = opt_steps)
          /\ (opt_steps' # opt_steps =>
                 /\ opt_steps' = opt_steps + 1
                 /\ mom_updates = opt_steps
                 /\ steps_started = opt_steps + 1)
          /\ (steps_started' # steps_started =>
                 mom_updates = opt_steps /\ opt_steps = steps_started)]_vars

\* C1 witness: a second training step has run its momentum update
C1_Witness == pc = "return" /\ mom_updates = 2 /\ opt_steps = 2

\* C2: every optimizer step is followed by exactly one momentum update, which
\* sets each teacher backbone parameter to m * teacher + (1 - m) * student,
\* teacher and student as they are just before the update (the student after
\* this step's optimizer step), m = momentum_schedule[global_step].
C2_MomentumFormula ==
    /\ [](pc \in {"return", "fit", "validate", "done"} => mom_updates = opt_steps)
    /\ [][/\ (mom_updates' # mom_updates =>
                 /\ opt_steps = mom_updates + 1
                 /\ mom_updates' = opt_steps
                 /\ student' = student
                 /\ \A n \in DOMAIN NetParameters :
                      teacher'[NetParameters[n]] =
                        (CurrentMomentum * teacher[NetParameters[n]]
                           + (Den - CurrentMomentum) * student[NetParameters[n]]) \div Den)
          /\ (opt_steps' # opt_steps => mom_updates = opt_steps)]_vars

\* C2 witness: an update with a momentum strictly between 0 and 1 has run on
\* a teacher that differs from the student
C2_Witness ==
    /\ pc = "return" /\ mom_updates >= 1
    /\ CurrentMomentum \notin {0, Den}
    /\ \E n \in DOMAIN NetParameters :
         teacher[NetParameters[n]] # student[NetParameters[n]]

\* C3: for every student and teacher parameter state, a momentum update with
\* momentum 1 leaves every teacher parameter unchanged (however often it is
\* repeated), and one with momentum 0 makes every teacher parameter equal to
\* the corresponding student parameter.
C3_MomentumOneAndZero ==
    [][mom_updates' # mom_updates =>
         /\ (CurrentMomentum = Den => teacher' = teacher)
         /\ (CurrentMomentum = 0 =>
               /\ \A n \in DOMAIN NetParameters :
                    teacher'[NetParameters[n]] = student[NetParameters[n]]
               /\ \A i \in 1..HeadLen :
                    teacher'[<<"projector", 1, i>>] =
                      student[<<"projector", FinalHead(args.st_inter), i>>])]_vars

\* C3 witness: an update with momentum 1 and then one with momentum 0 have
\* run, on a teacher that started different from the student
C3_Witness ==
    /\ pc = "return" /\ mom_updates = 2
    /\ momentum_schedule[1] = Den /\ momentum_schedule[2] = 0
    /\ args.st_inter
    /\ student[<<"projector", 1, 1>>] # student[<<"projector", NumHeads, 1>>]

\* C4: right after construction, before any training step, every teacher
\* backbone parameter equals the student's, and the teacher's projection head
\* equals the student's (its final head projector[-1] when the modes differ).
C4_TeacherStartsAsCopy ==
    (pc = "fit" /\ steps_started = 0) =>
        /\ DOMAIN teacher = TeacherIds(t_inter)
        /\ \A n \in DOMAIN NetParameters :
             teacher[NetParameters[n]] = student[NetParameters[n]]
        /\ \A i \in 1..HeadLen :
             teacher[<<"projector", 1, i>>] =
               student[<<"projector", FinalHead(args.st_inter), i>>]

\* C4 witness: a learner just built with differing modes, whose student
\* heads differ from one another
C4_Witness ==
    /\ pc = "fit" /\ steps_started = 0
    /\ args.st_inter # t_inter
    /\ student[<<"projector", 1, 1>>] # student[<<"projector", NumHeads, 1>>]

\* C5: once the learner is built, no parameter group holds a teacher
\* parameter, every teacher parameter has requires_grad False, the teacher
\* is written by momentum_update only and the student by the optimizer step
\* only (so momentum_update writes no student parameter).
C5_SingleWriters ==
    /\ [](pc # "new" =>
            /\ \A n \in DOMAIN param_groups :
                 \A x \in param_groups[n].params : x[1] # "teacher"
            /\ \A id \in DOMAIN teacher : ~requires_grad[<<"teacher", id>>])
    /\ [][pc # "new" =>
            /\ (teacher' # teacher => pc = "momentum")
            /\ (student' # student => pc = "opt_step")
            /\ requires_grad' = requires_grad]_vars

\* C5 witness: after training steps that changed both models and an
\* evaluation epoch
C5_Witness ==
    /\ Len(total_acc_t1) >= 1 /\ opt_steps >= 2 /\ mom_updates >= 2
    /\ \E n \in DOMAIN NetParameters :
         teacher[NetParameters[n]] # student[NetParameters[n]]

\* C6: the projector part of the momentum update averages into the teacher's
\* head the student's final head projector[-1] only when the modes differ,
\* and the whole student head, parameter by parameter, when they match.
C6_ProjectorPolicy ==
    [][mom_updates' # mom_updates =>
         IF args.st_inter # t_inter
         THEN \A i \in 1..HeadLen :
                teacher'[<<"projector", 1, i>>] =
                  (CurrentMomentum * teacher[<<"projector", 1, i>>]
                     + (Den - CurrentMomentum)
                         * student[<<"projector", NumHeads, i>>]) \div Den
         ELSE /\ Len(ProjectorParameters(args.st_inter)) = Len(ProjectorParameters(t_inter))
              /\ \A n \in DOMAIN ProjectorParameters(t_inter) :
                   teacher'[ProjectorParameters(t_inter)[n]] =
                     (CurrentMomentum * teacher[ProjectorParameters(t_inter)[n]]
                        + (Den - CurrentMomentum)
                            * student[ProjectorParameters(args.st_inter)[n]]) \div Den]_vars

\* C6 witness: an update has run with differing modes, a momentum below 1 and
\* student heads that differ from one another
C6_Witness ==
    /\ pc = "return" /\ mom_updates >= 1
    /\ args.st_inter # t_inter
    /\ CurrentMomentum < Den
    /\ student[<<"projector", 1, 1>>] # student[<<"projector", NumHeads, 1>>]
    /\ teacher[<<"projector", 1, 1>>] # student[<<"projector", 1, 1>>]

\* C7: in a run of max_epochs epochs, whatever epochs, max_epochs, accumulate
\* and the device count are, every schedule has length
\* epochs * ceil(len(data_loader) / (accumulate * device_count)) and every
\* lookup schedule[global_step] is within it.
C7_LookupsInBounds ==
    pc \in {"update_lr", "momentum"} =>
        \A schedule \in {lr_schedule, wd_schedule, ratio_schedule, momentum_schedule} :
            /\ Len(schedule) =
                 args.epochs * CeilDiv(args.length, args.accumulate * args.device_count)
            /\ InBounds(schedule, global_step)

\* C8: the four schedules are built in the constructor and never written
\* afterwards: schedule[i] is the same at every point of the run.
C8_SchedulesReadOnly ==
    [][pc # "new" =>
         /\ lr_schedule' = lr_schedule
         /\ wd_schedule' = wd_schedule
         /\ ratio_schedule' = ratio_schedule
         /\ momentum_schedule' = momentum_schedule]_vars

\* C8 witness: the schedules have been read in several steps and an
\* evaluation epoch has run
C8_Witness ==
    /\ global_step >= 2 /\ mom_updates >= 2 /\ Len(total_acc_t1) >= 1
    /\ Len(lr_schedule) = args.epochs * ScheduleLength(args)
    /\ Len(momentum_schedule) = Len(lr_schedule)


\* C9: for every world size W, batch size B, rank r and local index i, the
\* label of student row i is i + B*r, lies in [0, W*B), and is the row of the
\* rank-ordered gathered teacher batch that holds rank r's own i-th sample
\* (the other view of the image of student row i); every other gathered row
\* is another sample (a negative).
C9_LabelIsOwnGatheredRow ==
    \A r \in Ranks(nce.W) :
        nce.phase[r] = "done" =>
            /\ Len(nce.labels[r]) = nce.B
            /\ Len(nce.gathered[r]) = nce.W * nce.B
            /\ \A i \in 0..(nce.B - 1) :
                 LET label == nce.labels[r][i + 1]
                 IN  /\ label = i + nce.B * r
                     /\ label \in 0..(nce.W * nce.B - 1)
                     /\ nce.gathered[r][label + 1] =
                          Embedding("teacher", 1, nce.images[r][i + 1], r, i)
                     /\ nce.student_output1[r][i + 1] =
                          Embedding("student", 2, nce.images[r][i + 1], r, i)
                     /\ \A j \in 0..(nce.W * nce.B - 1) :
                          j # label =>
                            <<nce.gathered[r][j + 1].rank, nce.gathered[r][j + 1].index>>
                               # <<r, i>>

\* C9 witness: the last replica of a world of several has its labels, with a
\* batch of several images
C9_Witness ==
    /\ nce.W >= 2 /\ nce.B >= 2
    /\ nce.phase[nce.W - 1] = "done"
    /\ nce.labels[nce.W - 1][nce.B] = nce.W * nce.B - 1


\* C10: over a batch of 2N embeddings every logits row has exactly 2N-1
\* entries, the self-similarity is gone, position 0 holds the similarity to
\* the anchor's counterpart view (row i+N mod 2N), the other 2N-2 entries are
\* the similarities to all other rows, and the target is 0 for every row.
C10_PositiveAtPositionZero ==
    sim.steps >= 1 =>
        /\ sim.error = NoError
        /\ Len(sim.features) = 2 * sim.N
        /\ Len(sim.logits) = 2 * sim.N
        /\ Len(sim.target) = 2 * sim.N
        /\ \A i \in 0..(2 * sim.N - 1) :
             LET row == sim.logits[i + 1]
                 counterpart == (i + sim.N) % (2 * sim.N)
             IN  /\ Len(row) = 2 * sim.N - 1
                 /\ row[1] = <<i, counterpart>>
                 /\ sim.features[counterpart + 1].image = sim.features[i + 1].image
                 /\ sim.features[counterpart + 1].view # sim.features[i + 1].view
                 /\ {row[k] : k \in 2..(2 * sim.N - 1)} =
                      {<<i, j>> : j \in (0..(2 * sim.N - 1)) \ {i, counterpart}}
                 /\ sim.target[i + 1] = 0

\* C10 witness: the loss has run a second time, on the cached labels and
\* mask, over a batch of several images
C10_Witness ==
    /\ sim.steps = 2 /\ sim.N >= 2 /\ sim.phase = "forward"
    /\ sim.logits[1][1] = <<0, sim.N>>
    /\ Len(sim.logits[1]) = 2 * sim.N - 1

\* the validation samples have all been classified and the report is made
KnnReported == knn # <<>> /\ knn.phase = "reported"

\* validation sample v has an exact duplicate with the right label in the bank
HasDuplicate(v) ==
    \E i \in DOMAIN knn.train :
        knn.train[i].emb = v.emb /\ knn.train[i].label = v.label

\* what the reference samples of class c weigh together for the sample v
ClassWeight(v, c) ==
    SumOver({i \in DOMAIN knn.train : knn.train[i].label = c},
            [i \in DOMAIN knn.train |-> 2 ^ (SimTop - Abs(v.emb - knn.train[i].emb))])

\* 100 percent
Hundred(total) == <<100 * total, total>>

\* C11 as stated: top-1 accuracy is 100% whenever every validation sample has
\* an exact duplicate with the correct label in the reference set, whatever
\* the other reference samples among its 20 nearest neighbours are.
C11_DuplicateAlwaysWins ==
    (KnnReported /\ \A n \in DOMAIN knn.val_loader : HasDuplicate(knn.val_loader[n]))
        => knn.report.top1 = Hundred(knn.total)

\* C11 (amended): with a non-empty validation set and at least 20 reference
\* samples, top-1 accuracy is 100% whenever every validation sample has an
\* exact duplicate with the correct label in the reference set and the
\* reference samples of any one other class together weigh (sum of
\* exp(similarity / 0.07)) less than a single exact duplicate; the evaluation
\* then ends in a report, not in an error.
C11_DuplicateWinsUnlessOutweighed ==
    (/\ knn # <<>>
     /\ knn.phase \in {"raised", "reported"}
     /\ Len(knn.val_loader) > 0
     /\ Len(knn.train) >= K
     /\ \A n \in DOMAIN knn.val_loader :
           LET v == knn.val_loader[n]
           IN  /\ HasDuplicate(v)
               /\ \A i \in DOMAIN knn.train :
                     /\ knn.train[i].label \in 0..(num_classes - 1)
                     /\ knn.train[i].label # v.label
                           => ClassWeight(v, knn.train[i].label) < 2 ^ SimTop)
        => /\ knn.phase = "reported"
           /\ knn.report.top1 = Hundred(knn.total)
           /\ knn.total = Len(knn.val_loader)

\* two validation samples, each with a duplicate and with neighbours of
\* other classes too light to outvote it, one of them a near neighbour
C11_Witness ==
    /\ KnnReported
    /\ knn.total = 2
    /\ knn.report.top1 = Hundred(2)
    /\ \A n \in DOMAIN knn.val_loader :
          LET v == knn.val_loader[n]
          IN  /\ HasDuplicate(v)
              /\ \A i \in DOMAIN knn.train :
                    knn.train[i].label # v.label
                        => ClassWeight(v, knn.train[i].label) < 2 ^ SimTop
    /\ \E i \in DOMAIN knn.train :
          /\ knn.train[i].emb \in EmbChoices
          /\ knn.train[i].label # knn.val_loader[1].label

\* the cosine similarity of the validation embedding e to every bank row
RowOf(e) == [i \in DOMAIN knn.train |-> SimTop - Abs(e - knn.train[i].emb)]

\* the sum of exp(similarity / 0.07) over the selected neighbours of each
\* class that can have a vote, and of the class to predict
VotesOf(run) ==
    LET weight == [i \in run.indices |-> 2 ^ (SimTop - Abs(run.emb - knn.train[i].emb))]
    IN  [c \in {knn.train[i].label : i \in DOMAIN knn.train} \cup {run.target} |->
            SumOver({i \in run.indices : knn.train[i].label = c}, weight)]

\* the classes that score more than (at least as much as) the true label
Above(votes, target) == {c \in DOMAIN votes : votes[c] > votes[target]}
NotBelow(votes, target) == {c \in DOMAIN votes \ {target} : votes[c] >= votes[target]}

\* the validation samples counted as hits among the first n predictions
HitsOf(n) == {m \in DOMAIN knn.runs : knn.runs[m].position < n}

\* C12: for each validation sample the evaluator selects the 20 reference
\* samples of highest similarity, gives each class the sum of
\* exp(similarity / 0.07) over the selected neighbours of that label, counts
\* a top-1 hit when the true label scores highest and a top-5 hit when it is
\* among the five highest-scoring classes (classes of equal score in either
\* order); top1 and top5 are the percentages of hits over all validation
\* samples, and 0 <= top1 <= top5 <= 100.
C12_WeightedVote ==
    (knn # <<>> /\ knn.phase \in {"loop", "reported"}) =>
        /\ \A m \in DOMAIN knn.runs :
              LET run == knn.runs[m]
                  row == RowOf(run.emb)
                  votes == VotesOf(run)
                  above == Above(votes, run.target)
                  level == NotBelow(votes, run.target)
              IN  /\ run.emb = knn.val_loader[m].emb
                  /\ run.target = knn.val_loader[m].label
                  /\ run.indices \subseteq DOMAIN knn.train
                  /\ Cardinality(run.indices) = 20
                  /\ \A i \in run.indices : \A j \in DOMAIN knn.train \ run.indices :
                        row[i] >= row[j]
                  /\ DOMAIN run.probs = {knn.train[i].label : i \in run.indices}
                  /\ \A c \in DOMAIN run.probs : run.probs[c] = votes[c]
                  /\ run.position < 1 => above = {}
                  /\ (level = {} /\ votes[run.target] > 0) => run.position < 1
                  /\ run.position < 5 => Cardinality(above) < 5
                  /\ (Cardinality(level) < 5 /\ votes[run.target] > 0)
                        => run.position < 5
        /\ knn.top1 = Cardinality(HitsOf(1))
        /\ knn.top5 = Cardinality(HitsOf(5))
        /\ knn.total = Len(knn.runs)
        /\ knn.phase = "reported" =>
              /\ knn.total = Len(knn.val_loader)
              /\ knn.report.top1 = <<100 * Cardinality(HitsOf(1)), Len(knn.val_loader)>>
              /\ knn.report.top5 = <<100 * Cardinality(HitsOf(5)), Len(knn.val_loader)>>
              /\ 0 <= knn.report.top1[1]
              /\ knn.report.top1[1] <= knn.report.top5[1]
              /\ knn.report.top5[1] <= 100 * knn.report.top5[2]
              /\ knn.report.top1[2] = knn.report.top5[2]

\* a report over two validation samples: one is a top-5 hit that is not a
\* top-1 hit (a class outvotes its true label), one is no hit at all
C12_Witness ==
    /\ KnnReported
    /\ knn.report.top1 = <<0, 2>>
    /\ knn.report.top5 = <<100, 2>>
    /\ \E m \in DOMAIN knn.runs :
          /\ Above(VotesOf(knn.runs[m]), knn.runs[m].target) # {}
          /\ VotesOf(knn.runs[m])[knn.runs[m].target] > 0
          /\ knn.runs[m].position < 5

\* prepare_tokens has run in the call at hand
TokensPrepared == vit # <<>> /\ vit.phase \in {"blocks", "returned", "raised"}

\* the batch has the size the model was built for, a multiple of the patch size
ValidImage ==
    /\ vit.image.side = vit.cfg.img_size
    /\ vit.cfg.img_size % vit.cfg.patch_size = 0

\* C13: for every image size divisible by the patch size and both token
\* configurations, prepare_tokens returns a sequence of
\* grid_height * grid_width + number_of_special_tokens tokens, which is also
\* the length of the positional encoding added to it.
C13_TokenSequenceLength ==
    (TokensPrepared /\ ValidImage) =>
        LET grid == vit.cfg.img_size \div vit.cfg.patch_size
            special == IF vit.cfg.dis_token THEN 2 ELSE 1
        IN  /\ vit.tokens = <<vit.image.B, grid * grid + special, vit.cfg.embed_dim>>
            /\ vit.pos_embed[2] = grid * grid + special

\* a model with class and distillation token on a grid of 2 x 2 patches
C13_Witness ==
    /\ TokensPrepared /\ ValidImage
    /\ vit.cfg.dis_token
    /\ vit.cfg.img_size = 4 /\ vit.cfg.patch_size = 2
    /\ vit.tokens[2] = 6

\* C14: in forward and get_intermediate_layers every block returns tokens of
\* the shape (batch, N, embed_dim) the prepared tokens have; the blocks do
\* not fail when the number of heads divides the embedding dimension.
C14_BlocksPreserveShape ==
    (vit # <<>> /\ vit.method \in {"forward", "get_intermediate_layers"}) =>
        /\ \A j \in DOMAIN vit.shapes : vit.shapes[j] = vit.tokens
        /\ Len(vit.shapes) = vit.i
        /\ vit.phase = "returned" => Len(vit.shapes) = vit.cfg.depth
        /\ vit.error \in {"proj", "reshape"}
              => vit.cfg.embed_dim % vit.cfg.num_heads # 0

\* forward has returned from a model of two blocks
C14_Witness ==
    /\ vit # <<>>
    /\ vit.method = "forward" /\ vit.phase = "returned"
    /\ vit.cfg.depth = 2 /\ Len(vit.shapes) = 2
    /\ vit.shapes[2] = <<vit.image.B, vit.tokens[2], vit.cfg.embed_dim>>

\* C15: get_last_selfattention on a valid image batch returns the attention
\* weights of the final block, of shape (batch, heads, N, N), and does not
\* end in an error.
C15_LastSelfAttention ==
    (/\ vit # <<>>
     /\ vit.method = "get_last_selfattention"
     /\ vit.phase \in {"returned", "raised"}
     /\ ValidImage
     /\ vit.cfg.depth >= 1
     /\ vit.cfg.embed_dim % vit.cfg.num_heads = 0)
        => /\ vit.phase = "returned"
           /\ vit.result = <<vit.image.B, vit.cfg.num_heads, vit.tokens[2], vit.tokens[2]>>

\* the constructor is past the positional encoding
PastPosEmbed ==
    vit.phase # "init" \/ \E j \in 1..(vit.at - 1) : InitOrder[j] = "pos_embed"

PastDispatch == boot.at \notin {"parse_args", "dispatch"}

\* C17 (as stated): an architecture name that is neither a constructor of
\* vision_transformer nor a torchvision model stops startup at the
\* architecture dispatch (at the latest), with an error that names the
\* architecture, and no learner is built.
C17_UnsupportedArchAbortsAtDispatch ==
    (UnsupportedArch(boot.arch) /\ PastDispatch)
        => /\ boot.at = "aborted"
           /\ boot.raised.at \in {"parse_args", "dispatch"}
           /\ boot.raised.names = boot.arch
           /\ ~boot.learner

\* PLLearner.__init__ has gone through its optimizer if / elif chain
PastOptimizer ==
    \/ boot.at \in {"schedulers", "fit", "training"}
    \/ boot.at = "aborted" /\ boot.raised.at \in {"optimizer", "configure_optimizers"}

\* C18 (as stated): with an optimizer name other than adamw, sgd and lars the
\* constructor of the learner aborts at the optimizer choice, and no learner
\* without an optimizer is ever returned.
C18_UnsupportedOptimizerAbortsConstructor ==
    (boot.has_optimizer /\ boot.optimizer \notin AssignsOptimizer /\ PastOptimizer)
        => /\ boot.at = "aborted"
           /\ boot.raised.at = "optimizer"
           /\ ~(boot.learner /\ ~boot.self_optimizer)

\* the step has got past its loss computation
PastLoss == inter.at \in {"opt_step", "step", "momentum_update", "done"}

\* the parameters are those the step started with
ParametersUntouched ==
    inter.student = StepStart.student /\ inter.teacher = StepStart.teacher

\* the lines of training_step that compute the loss, from loss_detached to
\* loss_output
LossLines == 194..215

\* the step with intermediate supervision never gets past its loss
\* computation, and a raised error comes from there
FailsAtLoss ==
    /\ ~PastLoss
    /\ ParametersUntouched
    /\ inter.at = "raised" => inter.line \in LossLines

\* C19 (as stated): with intermediate supervision, a student or a teacher
\* output whose rows are not 12 times the batch size makes the step fail in
\* its loss computation, before the optimizer step and the momentum update.
C19_AnyMismatchFails ==
    (/\ inter.st_inter
     /\ inter.at # "forward"
     /\ \/ inter.student_rows # 12 * inter.batch_size
        \/ inter.teacher_rows # 12 * inter.batch_size)
        => FailsAtLoss

\* C19 (amended): with intermediate supervision, a student output whose rows
\* are not 12 times the batch size makes the step fail in its loss
\* computation, before the optimizer step and the momentum update; student
\* and teacher parameters stay as they were.
C19_StudentMismatchFails ==
    (/\ inter.st_inter
     /\ inter.at # "forward"
     /\ inter.student_rows # 12 * inter.batch_size)
        => FailsAtLoss

\* a student output of 12 rows for a batch of 2 passes loss_detached and is
\* stopped by torch.split
C19_Witness ==
    /\ inter.st_inter
    /\ inter.at = "raised"
    /\ inter.line = 205
    /\ inter.student_rows # 12 * inter.batch_size
    /\ inter.student_rows % 12 = 0
    /\ inter.student_rows > 0

\* replica r has called concat_all_gather: it waits in the collective or has
\* its result
GatherIssued(r) == nce.phase[r] = "gather" \/ nce.gathered[r] # <<>>

\* self.forward has returned on replica r
ForwardDone(r) == nce.student_output1[r] # <<>> /\ nce.teacher_output1[r] # <<>>

\* C20 (as stated): a replica issues the all-gather of the teacher embeddings
\* only after it has completed its forward and its backward pass of the step.
C20_GatherAfterForwardAndBackward ==
    \A r \in Ranks(nce.W) :
        GatherIssued(r) => ForwardDone(r) /\ nce.backward[r]

\* C20 (amended): a replica issues the all-gather of the teacher embeddings
\* only after its forward pass has returned, and it starts its backward pass
\* only after the all-gather has given it the embeddings of all replicas.
C20_GatherBetweenForwardAndBackward ==
    \A r \in Ranks(nce.W) :
        /\ GatherIssued(r) => ForwardDone(r)
        /\ nce.phase[r] = "gather" => ~nce.backward[r]
        /\ nce.backward[r] =>
             /\ Len(nce.gathered[r]) = nce.W * nce.B
             /\ \A q \in Ranks(nce.W) : ForwardDone(q)

\* in a world of several replicas one has finished its backward pass while
\* another has the gathered embeddings and has not computed its loss yet
C20_Witness ==
    /\ nce.W >= 2
    /\ nce.backward[0]
    /\ nce.phase[nce.W - 1] = "loss"
    /\ nce.gathered[nce.W - 1] # <<>>

\* the ratio update_lr has read for the step
ScheduledRatio == StepRatioSchedule[inter.global_step + 1]

\* C21 (as stated): the loss that is back-propagated is the primary loss plus
\* the scheduled ratio of the step times the intermediate-layer loss, with no
\* other term; without intermediate supervision it is the primary loss.
C21_PrimaryPlusRatioMid ==
    PastLoss =>
        /\ inter.loss = inter.loss_output + ScheduledRatio * inter.loss_mid
        /\ ~inter.st_inter => inter.loss = inter.loss_output

\* C21 (amended): the loss that is back-propagated is the primary loss plus
\* the scheduled ratio of the step times the intermediate-layer loss plus 12
\* times the detached-predictor loss; without intermediate supervision the
\* last two are zero and it is the primary loss.
C21_PrimaryPlusRatioMidPlusDetached ==
    /\ PastLoss =>
         /\ inter.loss = inter.loss_output + ScheduledRatio * inter.loss_mid
                            + 12 * inter.loss_detached
         /\ ~inter.st_inter => inter.loss = inter.loss_output
    /\ inter.backward # <<>> => inter.backward = <<inter.loss>>

\* a step with intermediate supervision whose three losses are all positive
\* has back-propagated its loss
C21_Witness ==
    /\ inter.st_inter
    /\ inter.backward # <<>>
    /\ ScheduledRatio = 2
    /\ inter.loss_output = 1 /\ inter.loss_mid = 1 /\ inter.loss_detached = 1
    /\ inter.loss = 15

\* C29: every loss term of the step compares a student embedding of one view
\* with the teacher embedding of the other view: student(image2) with
\* teacher(image1) and student(image1) with teacher(image2), in the primary,
\* the intermediate-layer and the detached-predictor loss; a finished loss
\* computation has both pairings of each of its losses.
C29_CrossViewPairs ==
    /\ \A n \in DOMAIN inter.terms :
         LET term == inter.terms[n]
         IN  /\ term.student.net = "student"
             /\ term.teacher.net = "teacher"
             /\ term.student.view # term.teacher.view
             /\ term.teacher.view = (IF n % 2 = 1 THEN 1 ELSE 2)
    /\ PastLoss =>
         {inter.terms[n].loss : n \in DOMAIN inter.terms} =
             (IF inter.st_inter THEN {"loss_detached", "loss_mid", "loss_output"}
              ELSE {"loss_output"})
    /\ PastLoss => Len(inter.terms) = (IF inter.st_inter THEN 6 ELSE 2)

\* C29 witness: a step with intermediate supervision has computed all six of
\* its loss terms
C29_Witness ==
    /\ inter.st_inter
    /\ PastLoss
    /\ Len(inter.terms) = 6
    /\ inter.terms[3] = Term("loss_mid", [net |-> "student", view |-> 2],
                             [net |-> "teacher", view |-> 1])

\* the parameter groups hold the schedules' values for the global step
GroupsAtStep ==
    \A i \in DOMAIN param_groups :
        /\ param_groups[i].lr = lr_schedule[global_step + 1]
        /\ i = 1 => param_groups[i].weight_decay = wd_schedule[global_step + 1]

\* C23: an optimizer step at global step s finds lr_schedule[s] in every
\* parameter group and wd_schedule[s] in group 0, written before the step by
\* update_lr (momentum learner) or on_after_backward (SimCLR learner), and
\* the global step never decreases.
C23_StepUsesScheduledValues ==
    [][/\ global_step' >= global_step
       /\ opt_steps' # opt_steps => GroupsAtStep]_vars

\* C23 witness: the SimCLR learner has taken optimizer steps at a later global
\* step, whose lr differs from the first step's
C23_Witness ==
    /\ args.learner = "simclr"
    /\ pc = "return"
    /\ global_step >= 1
    /\ opt_steps >= 2
    /\ InBounds(lr_schedule, global_step)
    /\ lr_schedule[global_step + 1] # lr_schedule[1]
    /\ GroupsAtStep

\* C24: the schedule update writes the learning rate of every parameter group
\* and the weight decay of group 0 only: every other group keeps the weight
\* decay it was built with.
C24_OnlyGroupZeroDecays ==
    /\ [][pc # "new" =>
            \A i \in DOMAIN param_groups :
                i >= 2 => param_groups'[i].weight_decay = param_groups[i].weight_decay]_vars
    /\ [][(pc \in {"update_lr", "on_after_backward"} /\ pc' # "error") =>
            \A i \in DOMAIN param_groups :
                param_groups'[i].lr = lr_schedule[global_step + 1]]_vars

\* C24 witness: after several steps group 0 has a weight decay above the one
\* it started with, the group of biases and norms still has its own, and both
\* have the step's learning rate
C24_Witness ==
    /\ pc = "return"
    /\ global_step >= 1
    /\ Len(param_groups) >= 2
    /\ param_groups[2].params # {}
    /\ param_groups[1].weight_decay > args.weight_decay
    /\ param_groups[2].weight_decay = 0
    /\ InBounds(lr_schedule, global_step)
    /\ param_groups[2].lr = lr_schedule[global_step + 1]

\* C22 (as stated): in every training step the gradients are clipped after
\* the backward pass and before the optimizer step; no optimizer step is
\* applied to gradients that have not been clipped in that step.
C22_StepOnlyOnClippedGradients == inter.stepped => inter.clipped

\* the sample whose row stands at position i of a bank gathered in rank
\* order from replicas with `rows` rows each, in evaluation epoch `epoch`
BankSample(i, rows, epoch) ==
    [rank |-> (i - 1) \div rows, epoch |-> epoch, index |-> ((i - 1) % rows) + 1]

\* replica r is in the loop of validation_epoch_end, where the bank is used
UsesBank(r) == ~CollDone(r) /\ CollPhase(r) = "knn"

\* C25: the feature bank and the label vector used in an evaluation epoch are
\* exactly the features and labels of that epoch's validation steps, gathered
\* from all workers in rank order: workers times the per-worker count rows,
\* features and labels aligned, nothing of an earlier epoch among them.
C25_BankIsThisEpochInRankOrder ==
    \A r \in Ranks(coll.W) :
        UsesBank(r) =>
            /\ Len(coll.train_features[r]) = coll.W * coll.rows
            /\ Len(coll.train_labels[r]) = coll.W * coll.rows
            /\ \A i \in 1..(coll.W * coll.rows) :
                  /\ coll.train_features[r][i] = BankSample(i, coll.rows, coll.epoch[r])
                  /\ coll.train_labels[r][i] = coll.train_features[r][i]

\* C25 witness: the second evaluation epoch of a run of two workers with two
\* rows each uses its bank
C25_Witness ==
    /\ coll.W = 2 /\ coll.rows = 2
    /\ UsesBank(1) /\ coll.epoch[1] = 2
    /\ Len(coll.train_features[1]) = 4

\* the collectives of one item of the plan, in the order of their calls
ItemCollectives(item) ==
    IF item = "training_step" THEN <<"teacher_output1", "teacher_output2">>
    ELSE <<"train_features", "train_labels">>

\* the collectives of a whole plan
RECURSIVE PlanCollectives(_)
PlanCollectives(plan) ==
    IF plan = <<>> THEN <<>>
    ELSE ItemCollectives(Head(plan)) \o PlanCollectives(Tail(plan))

\* s is an initial part of t
IsPrefix(s, t) == Len(s) <= Len(t) /\ SubSeq(t, 1, Len(s)) = s

AllCollDone == \A r \in Ranks(coll.W) : CollDone(r)

\* C30: every replica issues the same sequence of collectives, two teacher
\* gathers per training step (view 1, then view 2), with or without
\* intermediate supervision, and a feature gather then a label gather per
\* evaluation epoch; and no replica waits forever: all finish their run.
C30_SameCollectivesAndNoWaitForever ==
    /\ [](\A r \in Ranks(coll.W) :
            /\ IsPrefix(coll.issued[r], PlanCollectives(coll.plan))
            /\ CollDone(r) => coll.issued[r] = PlanCollectives(coll.plan))
    /\ <>AllCollDone

\* C30 witness: two replicas have finished a run of a training step and an
\* evaluation epoch, without intermediate supervision
C30_Witness ==
    /\ coll.W = 2 /\ ~coll.st_inter
    /\ coll.plan = <<"training_step", "validation">>
    /\ AllCollDone
    /\ coll.issued[1] = <<"teacher_output1", "teacher_output2",
                          "train_features", "train_labels">>

\* C26: a KNN evaluation epoch leaves every student and teacher parameter,
\* the optimizer's parameter groups, the schedules and the global step as
\* they were; it changes the accuracy histories only.
C26_EvaluationChangesHistoriesOnly ==
    [][pc = "validate" =>
          /\ student' = student /\ teacher' = teacher
          /\ requires_grad' = requires_grad
          /\ param_groups' = param_groups /\ grad' = grad
          /\ UNCHANGED schedules
          /\ ratio' = ratio /\ global_step' = global_step]_vars

\* C26 witness: an evaluation epoch of the momentum learner has run after
\* optimizer steps and momentum updates that moved the teacher
C26_Witness ==
    /\ pc \in {"fit", "done"}
    /\ args.learner = "momentum"
    /\ Len(total_acc_t1) = 1 /\ global_step >= 1
    /\ teacher # student

\* C27 (as stated): the histories total_acc_t1 and total_acc_t5 always have
\* equal length, gain one entry each per evaluation epoch on rank 0 and none
\* on other ranks, and with max_epochs >= 1 and val_interval >= 1 they are
\* non-empty on rank 0 when main takes their maxima after training.
C27_HistoriesPairedAndNonEmptyAtBest ==
    /\ [](Len(total_acc_t1) = Len(total_acc_t5))
    /\ [](pc # "new" /\ args.rank # 0 => total_acc_t1 = <<>>)
    /\ [][pc # "new" /\ args.rank = 0 =>
            Len(total_acc_t1') = Len(total_acc_t1) + (IF pc = "validate" THEN 1 ELSE 0)]_vars
    /\ [](pc # "ValueError")

\* the backbone has been constructed
BackboneBuilt == vit.phase \in {"built", "returned", "raised"}

====
